---- MODULE Spec2Model ----
(***************************************************************************)
(* Verification model of the oc-ralph orchestration engine.                *)
(*                                                                         *)
(*   SpecQueue : OrchestrationQueue (FIFO service queue, one run at a time)*)
(*   SpecOrch  : Orchestrator.start with StateManager, ApprovalMonitor,    *)
(*               TestingStage, TestRetryCoordinator, TestResultAggregator  *)
(*               and CompletionStage                                       *)
(*                                                                         *)
(* Labels are written without the "oc-ralph:" prefix.                      *)
(***************************************************************************)
EXTENDS Integers, Sequences, FiniteSets, TLC

(***************************************************************************)
(* Bounds of the model                                                     *)
(***************************************************************************)
\* number of distinct ticket ids offered to the queue
NumIssues == 2
\* number of enqueue / remove / clear / direct processQueue calls explored
MaxCalls == 3
\* number of processQueue activations that can be tracked at once
MaxLoops == 2

\* number of test sub-tickets of the plan
NumTests == 2
\* number of fix-agent runs that end in an error during one orchestration
MaxAgentErrors == 1

\* number of tests in the batch handed to TestingStage.executeBatch
MaxBatch == 4
\* largest number of logical CPUs reported by the host
MaxCpus == 2

\* number of implementation tasks of the plan
NumTasks == 3

\* number of poll invocations (timer ticks and manual triggers) explored
MaxPolls == 2
\* number of times a user puts the queue label on a ticket during the run
MaxRelabels == 1

\* number of agents with a model configuration
NumAgents == 2
\* largest configured resilience.modelFailover.maxFailoversPerAgent explored
MaxFailoversCfg == 2
\* number of AgentExecutor.execute calls explored
MaxExecutions == 2

\* largest configured execution.retry.maxAttempts explored
MaxAttemptsCfg == 3
\* largest configured execution.retry.initialDelayMs explored
MaxInitialDelay == 2
\* largest configured execution.retry.backoffMultiplier explored
MaxMultiplier == 3

\* number of updateTaskProgress calls explored
MaxProgressCalls == 3

\* number of status-table updates of the master ticket explored
MaxStatusUpdates == 4

\* number of transitionTo calls issued on the ticket
MaxTransitions == 2

\* number of tickets carrying the sub-issue label
MaxSubIssues == 2

\* largest number of tasks in an agent's plan
MaxPlanTasks == 3

\* number of WebSocket clients that connect
NumSockets == 2
\* number of log entries published
MaxPublishes == 3
\* largest capacity of the log buffer explored
MaxBufferSize == 2

\* number of batches createBatches returns
NumBatches == 2

\* status-table writes followed after start(id) has settled
MaxLateWrites == 1

\* tasks of one batch that run the craftsman role concurrently
NumBatchTasks == 2

(***************************************************************************)
(* Program constants                                                       *)
(***************************************************************************)
\* OrchestrationQueue.maxHistorySize
maxHistorySize == 50
\* TestRetryCoordinator.maxAttempts
maxAttempts == 10
\* AgentExecutor.execute: const maxFailoverAttempts = 3
maxFailoverAttempts == 3

Null == 0
Issues == 1..NumIssues
LoopIds == 1..MaxLoops
Tests == 1..NumTests

VARIABLES
  \* ---- OrchestrationQueue fields
  queue,        \* this.queue: waiting ticket ids, FIFO
  running,      \* this.running: id being orchestrated, or Null
  completed,    \* this.completed: history of successful runs (ids)
  failed,       \* this.failed: history of failed runs (ids)
  processing,   \* this.processing: the loop is active
  \* ---- scheduling state of the queue
  immediates,   \* number of setImmediate(() => processQueue()) callbacks pending
  loops,        \* activations of processQueue suspended at an await
  calls,        \* number of API calls made so far (bounds the exploration)
  lastCall,     \* the latest call of the queue API: operation, argument, threw
  accepts,      \* number of enqueue calls that returned normally
  life,         \* life[i]: the latest accepted enqueue of i and what became of it
  \* ---- one orchestration (Orchestrator.start) and its master ticket
  opc,          \* position of Orchestrator.start
  labels,       \* labels on the master ticket
  added,        \* state labels added to the master ticket, in order
  onotes,       \* events passed to the notifier by the orchestrator and stages
  autoApprove,  \* config.execution.autoApprove
  decision,     \* label the human reviewer has put on the ticket, or "none"
  monitorSaw,   \* what ApprovalMonitor.waitForApproval resolved with
  entered,      \* stages whose execute() has been called
  raisedIn,     \* where the error being propagated was raised, or "none"
  errMsg,       \* the error being propagated: kind and the test ids it names
  outcome,      \* how start(id) ended: "none", "approved", "rejected", "threw"
  prOpened,     \* CompletionStage.createPullRequest has opened a change request
  \* ---- testing stage and self-heal loop
  testIssues,   \* test sub-tickets of the master, in tracker order
  deps,         \* deps[t]: the tests that test t is declared to depend on
  tpc,          \* position of TestingStage.execute
  executed,     \* tests whose first run has settled
  tlab,         \* tlab[t]: failure labels on test sub-ticket t
  fixes,        \* fixes[t]: the fix sub-tickets of t, "open" or "closed"
  tnotes,       \* tnotes[t][e]: notifications of kind e received for test t
  failedTests,  \* failed tests still to be sent to coordinateTestFix
  fixResults,   \* results pushed by fixFailedTests
  cur,          \* the test coordinateTestFix is working on, or Null
  attemptNumber, \* local attemptNumber of coordinateTestFix
  passedAt,     \* passedAt[t]: fix attempt at which the re-run of t passed, or 0
  agentErrors,  \* fix-agent runs that ended in an error so far
  regressions,  \* <<T, D>>: the re-run of dependent D failed after T was fixed
  healOrder,    \* tests passed to coordinateTestFix, in order
  \* ---- TestingStage.executeBatch
  mcCfg,        \* config.execution.parallel.maxConcurrency as configured
  cpus,         \* require('os').cpus().length
  batchLen,     \* batch.length
  bstat,        \* bstat[i]: "new", "running" (executeTest pending) or "settled"
  executing,    \* the local array executing: indices of the pushed promises
  bnext,        \* index of the next test of the for loop
  bpc,          \* position of executeBatch
  \* ---- ImplementationStage.execute
  igraph,       \* dependencies of each implementation task
  ibatches,     \* const batches, once dependencyResolver.resolve returned
  ibi,          \* batchIndex (1-based)
  istat,        \* istat[t]: "new", "running", "completed" or "failed"
  iresults,     \* results: completed and failed counts
  ipc,          \* position of ImplementationStage.execute
  \* ---- GitHubPoller and the tickets it watches
  qlabel,       \* qlabel[i]: ticket i carries the queue label
  plabel,       \* plabel[i]: ticket i carries the processing label
  isPolling,    \* this.isPolling
  polls,        \* invocations of poll() suspended at an await
  pollCalls,    \* number of poll() invocations so far
  pollSkips,    \* number of invocations that returned at the isPolling guard
  relabels,     \* number of user relabellings so far
  ended,        \* what the latest poll that ran to its end did
  \* ---- ModelFailoverManager and AgentExecutor.execute
  enabled,              \* this.enabled
  failbackModels,       \* failbackModels[a]: a failback is configured for agent a
  maxFailoversPerAgent, \* this.maxFailoversPerAgent
  currentModels,        \* this.currentModels
  failoverCounts,       \* this.failoverCounts (0 for an agent without entry)
  lastTimeout,          \* the latest handleModelTimeout call and what it returned
  xpc,                  \* position of AgentExecutor.execute
  xagent,               \* the agent being executed
  xmodel,               \* the model of the latest client.execute call
  failoverAttempts,     \* local failoverAttempts of execute
  submissions,          \* client.execute calls made by the current execute
  executions,           \* number of execute calls so far
  xresult,              \* how the latest execute ended
  \* ---- RetryManager.executeWithRetry
  retryMaxAttempts,     \* local maxAttempts of executeWithRetry
  initialDelayMs,       \* this.config.initialDelayMs
  backoffMultiplier,    \* this.config.backoffMultiplier
  attempt,              \* loop variable attempt
  rpc,                  \* position of executeWithRetry
  invocations,          \* number of times fn was invoked
  lastError,            \* local lastError
  delays,               \* the delays slept so far, in order
  fnValue,              \* the value fn resolved with
  retryResult,          \* the value returned or the error thrown
  \* ---- DependencyResolver.resolve
  dgraph,               \* the dependencies of each task of the list passed to resolve
  dpc,                  \* position of resolve: "idle", "call", "returned", "threw"
  dbatches,             \* the batches returned
  derror,               \* the error thrown
  \* ---- StatusUpdater.updateTaskProgress, for one sub-ticket
  pendingObjs,            \* the pending-update objects created so far
  pendingProgressUpdates, \* this.pendingProgressUpdates.get(issueNumber): an object or Null
  progressUpdateTimers,   \* this.progressUpdateTimers.get(issueNumber): a timer or Null
  liveTimers,             \* timers set and neither fired nor cleared
  flushes,                \* the _flushProgressUpdate invocation started by each timer
  ticketBody,             \* the progress fields in the body of the sub-ticket
  bodyWrites,             \* number of updateIssue calls on the sub-ticket
  progressCalls,          \* number of updateTaskProgress calls so far
  windows,                \* number of debounce windows so far
  lastSet,                \* per field, the value of the last call that set it
  \* ---- the body of the master ticket and its writers
  masterBody,       \* issue.body of the master ticket, as a sequence of parts
  mpc,              \* position of the orchestration among its body writes
  originalRequest,  \* const originalRequest of the writer between its read and write
  isUpdating,       \* StatusUpdater.isUpdating
  newBody,          \* const newBody of updateStatusTable between its read and write
  statusUpdates,    \* number of status-table updates so far
  lastWrite,        \* the writer of the latest body write
  \* ---- StateManager.transitionTo, call by call
  ticketLabels,  \* the labels on the ticket
  spc,  \* position of transitionTo
  currentState,  \* const currentState of transitionTo
  newState,  \* parameter newState of transitionTo
  transitions, \* number of transitionTo calls so far
  \* ---- Orchestrator.resume
  rlabels,  \* the labels on the master ticket being resumed
  subIssues,  \* the tickets carrying the sub-issue label, by role label
  currentPlan,  \* this.currentPlan of the Orchestrator
  epc,  \* position of Orchestrator.resume
  resumedFrom,  \* const currentState of resume
  resumeEntered,  \* what resume has entered: the approval monitor, stages
  resumeResult, \* the value resume returned
  \* ---- WorktreeManager: the worktree of the orchestrated ticket
  cleanupOnFailure,  \* config.worktree.cleanupOnFailure
  worktree, \* the worktree of the ticket: "none", "present", "removed"
  intervalId,  \* StatusUpdater.intervalId: TRUE while the interval is armed
  lateWrites,  \* status-table writes to the master ticket after start settled
  \* ---- PlanningStage.execute, step by step
  ppc,  \* position of PlanningStage.execute and of start after it
  sculptor,  \* the executeSculptor promise: "idle", "running", "done", "threw"
  sentinel,  \* the executeSentinel promise
  implTaskCount,  \* implTasks.length
  testTaskCount,  \* testTasks.length
  implIssuesCreated,  \* implementation sub-tickets created so far
  testIssuesCreated,  \* test sub-tickets created so far
  planEvents,  \* the events passed to statusUpdater.onEvent, in order
  createdAtComplete, \* sub-tickets in existence when planning-complete was emitted
  \* ---- LogStreamManager and its WebSocket subscribers
  buffer,  \* this.buffer: the log entries held, oldest first
  maxSize,  \* this.maxSize
  subscribers,  \* this.subscribers
  readyState,  \* ws.readyState of each socket: "fresh" before it connects, "open", "closed"
  closeHandled,  \* whether the close handler of the socket has run
  frames,  \* the frames sent to each socket, in order
  published,  \* number of log entries passed to onLog so far
  subscribedAt, \* per socket, the number of entries published when it subscribed
  \* ---- ServiceCommand: the service process and its shutdown handler
  proc,  \* the service process: "running", "stopping" (shutdown awaits webServer.stop), "exited"
  pollerActive,  \* whether the GitHub poller timer is armed
  webActive,  \* whether the web server is listening
  exitCode, \* the code passed to process.exit, or "none"
  \* ---- TestingStage.executeTestsInBatches
  batchNo,  \* i + 1 of the loop of executeTestsInBatches
  leftRunning, \* tests of earlier batches still running when the current batch was started
  \* ---- ImplementationStage.executeBatch: concurrent tasks of one role
  taskPc,  \* position of each concurrent executeTask in AgentExecutor.execute
  currentModel,  \* currentModel of the running executeFn of each task
  taskFailoverAttempts,  \* failoverAttempts of each execute
  timedOutModel,  \* model reported in the last model-timeout of each task
  newModel  \* what handleModelTimeout returned for that timeout

qvars == <<queue, running, completed, failed, processing, immediates, loops, calls,
           lastCall, accepts, life>>
ovars == <<opc, labels, added, onotes, autoApprove, decision, monitorSaw,
           entered, raisedIn, errMsg, outcome, prOpened>>
tvars == <<testIssues, deps, tpc, executed, tlab, fixes, tnotes, failedTests,
           fixResults, cur, attemptNumber, passedAt, agentErrors, regressions,
                 healOrder>>
bvars == <<mcCfg, cpus, batchLen, bstat, executing, bnext, bpc>>
ivars == <<igraph, ibatches, ibi, istat, iresults, ipc>>
pvars == <<qlabel, plabel, isPolling, polls, pollCalls, pollSkips, relabels, ended>>
fvars == <<enabled, failbackModels, maxFailoversPerAgent, currentModels, failoverCounts,
           lastTimeout, xpc, xagent, xmodel, failoverAttempts, submissions, executions,
           xresult>>
rvars == <<retryMaxAttempts, initialDelayMs, backoffMultiplier, attempt, rpc, invocations,
           lastError, delays, fnValue, retryResult>>
dvars == <<dgraph, dpc, dbatches, derror>>
uvars == <<pendingObjs, pendingProgressUpdates, progressUpdateTimers, liveTimers, flushes,
           ticketBody, bodyWrites, progressCalls, windows, lastSet>>
mvars == <<masterBody, mpc, originalRequest, isUpdating, newBody, statusUpdates, lastWrite>>
svars == <<ticketLabels, spc, currentState, newState, transitions>>
evars == <<rlabels, subIssues, currentPlan, epc, resumedFrom, resumeEntered, resumeResult>>
wvars == <<cleanupOnFailure, worktree, intervalId, lateWrites>>
gvars == <<ppc, sculptor, sentinel, implTaskCount, testTaskCount, implIssuesCreated, testIssuesCreated, planEvents, createdAtComplete>>
lvars == <<buffer, maxSize, subscribers, readyState, closeHandled, frames, published, subscribedAt>>
hvars == <<proc, pollerActive, webActive, exitCode>>
yvars == <<batchNo, leftRunning>>
zvars == <<taskPc, currentModel, taskFailoverAttempts, timedOutModel, newModel>>
xvars == <<bvars, ivars, pvars, fvars, rvars, dvars, uvars, mvars, svars, evars, wvars, gvars, lvars, hvars, yvars, zvars>>
notB == <<ivars, pvars, fvars, rvars, dvars, uvars, mvars, svars, evars, wvars, gvars, lvars, hvars, yvars, zvars>>
notI == <<bvars, pvars, fvars, rvars, dvars, uvars, mvars, svars, evars, wvars, gvars, lvars, hvars, yvars, zvars>>
notP == <<bvars, ivars, fvars, rvars, dvars, uvars, mvars, svars, evars, wvars, gvars, lvars, hvars, yvars, zvars>>
notF == <<bvars, ivars, pvars, rvars, dvars, uvars, mvars, svars, evars, wvars, gvars, lvars, hvars, yvars, zvars>>
notR == <<bvars, ivars, pvars, fvars, dvars, uvars, mvars, svars, evars, wvars, gvars, lvars, hvars, yvars, zvars>>
notD == <<bvars, ivars, pvars, fvars, rvars, uvars, mvars, svars, evars, wvars, gvars, lvars, hvars, yvars, zvars>>
notU == <<bvars, ivars, pvars, fvars, rvars, dvars, mvars, svars, evars, wvars, gvars, lvars, hvars, yvars, zvars>>
notM == <<bvars, ivars, pvars, fvars, rvars, dvars, uvars, svars, evars, wvars, gvars, lvars, hvars, yvars, zvars>>
notS == <<bvars, ivars, pvars, fvars, rvars, dvars, uvars, mvars, evars, wvars, gvars, lvars, hvars, yvars, zvars>>
notE == <<bvars, ivars, pvars, fvars, rvars, dvars, uvars, mvars, svars, wvars, gvars, lvars, hvars, yvars, zvars>>
notW == <<bvars, ivars, pvars, fvars, rvars, dvars, uvars, mvars, svars, evars, gvars, lvars, hvars, yvars, zvars>>
notG == <<bvars, ivars, pvars, fvars, rvars, dvars, uvars, mvars, svars, evars, wvars, lvars, hvars, yvars, zvars>>
notL == <<bvars, ivars, pvars, fvars, rvars, dvars, uvars, mvars, svars, evars, wvars, gvars, hvars, yvars, zvars>>
notH == <<bvars, ivars, pvars, fvars, rvars, dvars, uvars, mvars, svars, evars, wvars, gvars, lvars, yvars, zvars>>
notY == <<bvars, ivars, pvars, fvars, rvars, dvars, uvars, mvars, svars, evars, wvars, gvars, lvars, hvars, zvars>>
notZ == <<bvars, ivars, pvars, fvars, rvars, dvars, uvars, mvars, svars, evars, wvars, gvars, lvars, hvars, yvars>>
vars == <<qvars, ovars, tvars, xvars>>

(***************************************************************************)
(* OrchestrationQueue                                                      *)
(***************************************************************************)
FreeLoop == [pc |-> "free", issue |-> Null]

\* record of a call of the queue API
NoCall == [op |-> "none", id |-> Null, threw |-> FALSE]
Call(op, i, threw) == [op |-> op, id |-> i, threw |-> threw]

\* what is known of an id: at = order of its latest accepted enqueue,
\* active = the loop was active when it was accepted, fate = what became of it
NeverEnqueued == [at |-> 0, active |-> FALSE, fate |-> "none"]
Fate(lf, i, f) == [lf EXCEPT ![i].fate = f]

InitQueue ==
  /\ queue = <<>>
  /\ running = Null
  /\ completed = <<>>
  /\ failed = <<>>
  /\ processing = FALSE
  /\ immediates = 0
  /\ loops = [l \in LoopIds |-> FreeLoop]
  /\ calls = 0
  /\ lastCall = NoCall
  /\ accepts = 0
  /\ life = [i \in Issues |-> NeverEnqueued]

SeqToSet(s) == {s[i] : i \in 1..Len(s)}

\* contains(issueNumber)
ContainsQueuedOnly(i) == i \in SeqToSet(queue)
Contains(i) == running = i \/ i \in SeqToSet(queue)

\* history.push(entry); if (history.length > maxHistorySize) history.shift()
PushHistory(h, i) ==
  LET h2 == Append(h, i) IN IF Len(h2) > maxHistorySize THEN Tail(h2) ELSE h2

\* lowest activation slot that is not in use
NewLoop == CHOOSE l \in LoopIds :
             /\ loops[l].pc = "free"
             /\ \A m \in LoopIds : loops[m].pc = "free" => l <= m

\* Head of the while loop of processQueue, run by activation l on queue q:
\* either shift the next id and suspend at `await orchestratorFactory()`,
\* or leave the loop and clear the processing flag.
LoopHeadTakesLast(l, q, lps) ==
  IF Len(q) > 0
    THEN /\ queue' = SubSeq(q, 1, Len(q) - 1)
         /\ running' = q[Len(q)]
         /\ loops' = [lps EXCEPT ![l] = [pc |-> "factory", issue |-> q[Len(q)]]]
         /\ processing' = TRUE
    ELSE /\ queue' = q
         /\ running' = IF lps[l].pc = "free" THEN running ELSE Null
         /\ loops' = [lps EXCEPT ![l] = FreeLoop]
         /\ processing' = FALSE
LoopHead(l, q, lps) ==
  IF Len(q) > 0
    THEN /\ queue' = Tail(q)
         /\ running' = Head(q)
         /\ loops' = [lps EXCEPT ![l] = [pc |-> "factory", issue |-> Head(q)]]
         /\ processing' = TRUE
    ELSE /\ queue' = q
         /\ running' = IF lps[l].pc = "free" THEN running ELSE Null
         /\ loops' = [lps EXCEPT ![l] = FreeLoop]
         /\ processing' = FALSE

\* enqueue(issueNumber): rejected when the id is queued or running
EnqueueBodyNoRearm(i) ==
  /\ IF Contains(i)
       THEN UNCHANGED <<queue, accepts, life>>
       ELSE /\ queue' = Append(queue, i)
            /\ accepts' = accepts + 1
            /\ life' = [life EXCEPT ![i] = [at |-> accepts + 1, active |-> processing,
                                            fate |-> "waiting"]]
  /\ UNCHANGED <<immediates, running, completed, failed, processing, loops>>
EnqueueBody(i) ==
  /\ IF Contains(i)
       THEN UNCHANGED <<queue, immediates, accepts, life>>
       ELSE /\ queue' = Append(queue, i)
            /\ immediates' = IF ~processing THEN immediates + 1 ELSE immediates
            /\ accepts' = accepts + 1
            /\ life' = [life EXCEPT ![i] = [at |-> accepts + 1, active |-> processing,
                                            fate |-> "waiting"]]
  /\ UNCHANGED <<running, completed, failed, processing, loops>>

\* enqueue(issueNumber) called through the queue API
Enqueue(i) ==
  /\ calls < MaxCalls
  /\ calls' = calls + 1
  /\ lastCall' = Call("enqueue", i, Contains(i))
  /\ EnqueueBody(i)
  /\ UNCHANGED <<ovars, tvars, xvars>>

\* the guard at the top of processQueue
ProcessQueueMayEnterNoGuard == TRUE
ProcessQueueMayEnter == ~processing

\* synchronous prefix of processQueue up to its first await
ProcessQueueBody ==
  IF ~ProcessQueueMayEnter
    THEN UNCHANGED <<queue, running, processing, loops>>
    ELSE /\ \E l \in LoopIds : loops[l].pc = "free"
         /\ LoopHead(NewLoop, queue, loops)

\* a setImmediate callback scheduled by enqueue runs processQueue
ProcessQueueImmediate ==
  /\ immediates > 0
  /\ immediates' = immediates - 1
  /\ ProcessQueueBody
  /\ UNCHANGED <<completed, failed, calls, lastCall, accepts, life>>
  /\ UNCHANGED <<ovars, tvars, xvars>>

\* processQueue invoked directly by a caller
ProcessQueueCall ==
  /\ calls < MaxCalls
  /\ calls' = calls + 1
  /\ lastCall' = Call("processQueue", Null, FALSE)
  /\ ProcessQueueBody
  /\ UNCHANGED <<completed, failed, immediates, accepts, life>>
  /\ UNCHANGED <<ovars, tvars, xvars>>

\* `await this.orchestratorFactory()` resolves: orchestrator.start(id) is called
FactoryResolves(l) ==
  /\ loops[l].pc = "factory"
  /\ loops' = [loops EXCEPT ![l].pc = "start"]
  /\ life' = Fate(life, loops[l].issue, "started")
  /\ UNCHANGED <<queue, running, completed, failed, processing, immediates, calls,
                 lastCall, accepts>>
  /\ UNCHANGED <<ovars, tvars, xvars>>

\* the factory rejects: catch block, then the next loop iteration
FactoryThrows(l) ==
  /\ loops[l].pc = "factory"
  /\ failed' = PushHistory(failed, loops[l].issue)
  /\ LoopHead(l, queue, loops)
  /\ life' = Fate(life, loops[l].issue, "factory-failed")
  /\ UNCHANGED <<completed, immediates, calls, lastCall, accepts>>
  /\ UNCHANGED <<ovars, tvars, xvars>>

\* orchestrator.start(id) resolves: record success, running = null, iterate
StartReturns(l) ==
  /\ loops[l].pc = "start"
  /\ completed' = PushHistory(completed, loops[l].issue)
  /\ LoopHead(l, queue, loops)
  /\ UNCHANGED <<failed, immediates, calls, lastCall, accepts, life>>
  /\ UNCHANGED <<ovars, tvars, xvars>>

\* orchestrator.start(id) rejects: record failure, running = null, iterate
StartThrows(l) ==
  /\ loops[l].pc = "start"
  /\ failed' = PushHistory(failed, loops[l].issue)
  /\ LoopHead(l, queue, loops)
  /\ UNCHANGED <<completed, immediates, calls, lastCall, accepts, life>>
  /\ UNCHANGED <<ovars, tvars, xvars>>

RECURSIVE RemoveFirst(_, _)
RemoveFirst(s, i) ==
  IF s = <<>> THEN <<>>
  ELSE IF Head(s) = i THEN Tail(s)
  ELSE <<Head(s)>> \o RemoveFirst(Tail(s), i)

\* remove(issueNumber): throws for the running id and for an id not queued
Remove(i) ==
  /\ calls < MaxCalls
  /\ calls' = calls + 1
  /\ lastCall' = Call("remove", i, running = i \/ i \notin SeqToSet(queue))
  /\ IF running = i \/ i \notin SeqToSet(queue)
       THEN UNCHANGED <<queue, life>>
       ELSE queue' = RemoveFirst(queue, i) /\ life' = Fate(life, i, "removed")
  /\ UNCHANGED <<running, completed, failed, processing, immediates, loops, accepts>>
  /\ UNCHANGED <<ovars, tvars, xvars>>

\* clear(): empties the waiting list, leaves the running orchestration alone
Clear ==
  /\ calls < MaxCalls
  /\ calls' = calls + 1
  /\ queue' = <<>>
  /\ lastCall' = Call("clear", Null, FALSE)
  /\ life' = [i \in Issues |->
                IF i \in SeqToSet(queue) THEN [life[i] EXCEPT !.fate = "cleared"]
                ELSE life[i]]
  /\ UNCHANGED <<running, completed, failed, processing, immediates, loops, accepts>>
  /\ UNCHANGED <<ovars, tvars, xvars>>


(***************************************************************************)
(* StateManager                                                            *)
(***************************************************************************)
\* the stateLabels array of getCurrentState, in its order
stateLabels == <<"planning", "awaiting-approval", "approved", "implementing",
                 "testing", "completing", "completed", "pr-created", "failed",
                 "rejected", "paused">>

\* getCurrentState: the first entry of stateLabels that the ticket carries
GetCurrentState(ls) ==
  IF \E i \in 1..Len(stateLabels) : stateLabels[i] \in ls
    THEN stateLabels[CHOOSE i \in 1..Len(stateLabels) :
                       /\ stateLabels[i] \in ls
                       /\ \A j \in 1..(i - 1) : stateLabels[j] \notin ls]
    ELSE "null"

\* transitionTo: remove the current state label if any, add the new one
TransitionToKeepCurrent(ls, new) == ls \cup {new}
TransitionTo(ls, new) ==
  LET current == GetCurrentState(ls)
  IN (IF current = "null" THEN ls ELSE ls \ {current}) \cup {new}

\* canResume
CanResume(ls) ==
  GetCurrentState(ls) \in {"planning", "awaiting-approval", "approved",
                           "implementing", "testing", "completing"}

(***************************************************************************)
(* Notifier bookkeeping                                                    *)
(***************************************************************************)
OrchEvents == {"orchestration-started", "planning-complete", "awaiting-approval",
               "implementation-started", "testing-started",
               "orchestration-complete", "orchestration-failed"}
TestEvents == {"test-failed", "test-fix-started", "test-fix-completed",
               "test-passed-after-fix", "test-max-attempts-reached"}

Note(n, e) == [n EXCEPT ![e] = @ + 1]
NoteT(tn, t, e) == [tn EXCEPT ![t][e] = @ + 1]

NoError == [kind |-> "none", names |-> {}]
Err(k) == [kind |-> k, names |-> {}]

(***************************************************************************)
(* Initial state of one orchestration                                      *)
(***************************************************************************)
NoDeps == [t \in Tests |-> {}]
\* each test depends on the test created just before it
ChainUp == [t \in Tests |-> IF t > 1 THEN {t - 1} ELSE {}]
\* each test depends on the test created just after it
ChainDown == [t \in Tests |-> IF t < NumTests THEN {t + 1} ELSE {}]

InitTesting ==
  /\ testIssues \in {<<>>, [i \in 1..NumTests |-> i]}
  /\ deps \in {NoDeps, ChainUp, ChainDown}
  /\ (testIssues = <<>> => deps = NoDeps)
  /\ tpc = "idle"
  /\ executed = {}
  /\ tlab = [t \in Tests |-> {}]
  /\ fixes = [t \in Tests |-> <<>>]
  /\ tnotes = [t \in Tests |-> [e \in TestEvents |-> 0]]
  /\ failedTests = <<>>
  /\ fixResults = <<>>
  /\ cur = Null
  /\ attemptNumber = 0
  /\ passedAt = [t \in Tests |-> 0]
  /\ agentErrors = 0
  /\ regressions = {}
  /\ healOrder = <<>>

InitOrchFields ==
  /\ opc = "idle"
  /\ labels = {}
  /\ added = <<>>
  /\ onotes = [e \in OrchEvents |-> 0]
  /\ decision = "none"
  /\ monitorSaw = "none"
  /\ entered = {}
  /\ raisedIn = "none"
  /\ errMsg = NoError
  /\ outcome = "none"
  /\ prOpened = FALSE

\* no worktree yet; cleanupOnFailure at its default (ConfigManager)
WorktreeIdle ==
  /\ cleanupOnFailure = FALSE /\ worktree = "none"
  /\ intervalId = FALSE /\ lateWrites = 0
\* no worktree yet, under either setting of worktree.cleanupOnFailure
InitWorktree ==
  /\ cleanupOnFailure \in BOOLEAN /\ worktree = "none"
  /\ intervalId = FALSE /\ lateWrites = 0

\* the testing stage before any orchestration has reached it
TestingIdle ==
  /\ testIssues = <<>>
  /\ deps = NoDeps
  /\ tpc = "idle"
  /\ executed = {}
  /\ tlab = [t \in Tests |-> {}]
  /\ fixes = [t \in Tests |-> <<>>]
  /\ tnotes = [t \in Tests |-> [e \in TestEvents |-> 0]]
  /\ failedTests = <<>>
  /\ fixResults = <<>>
  /\ cur = Null
  /\ attemptNumber = 0
  /\ passedAt = [t \in Tests |-> 0]
  /\ agentErrors = 0
  /\ regressions = {}
  /\ healOrder = <<>>

(***************************************************************************)
(* Orchestrator                                                            *)
(***************************************************************************)
\* the catch blocks of start / runImplementation / runTesting / runCompletion:
\* StatusUpdater.start: stop(), then setInterval arms the periodic update
StatusUpdaterStart == TRUE

\* StatusUpdater.stop: clearInterval, intervalId = null
StatusUpdaterStop == FALSE

\* the interval of StatusUpdater.start fires after start(id) has settled:
\* updateStatusTable rewrites the status table of the master ticket (while the
\* orchestration runs the write changes nothing that is modelled here)
StatusIntervalFires ==
  /\ intervalId
  /\ opc = "done"
  /\ lateWrites < MaxLateWrites
  /\ lateWrites' = lateWrites + 1
  /\ UNCHANGED <<ovars, cleanupOnFailure, worktree, intervalId>>
  /\ UNCHANGED <<qvars, tvars, notW>>

\* onEvent('orchestration-failed'), transitionTo(failed), rethrow
FailureRouting ==
  /\ onotes' = Note(onotes, "orchestration-failed")
  /\ labels' = TransitionTo(labels, "failed")
  /\ added' = Append(added, "failed")

\* start: ensureLabelsExist, orchestration-started, createWorktree,
\* transitionTo(planning), initializeStatusTable, planningStage.execute called
StartBegin ==
  /\ opc = "idle"
  /\ onotes' = Note(onotes, "orchestration-started")
  /\ \E ok \in BOOLEAN :
       IF ok
         THEN /\ worktree' = "present"
              /\ intervalId' = StatusUpdaterStart
              /\ labels' = TransitionTo(labels, "planning")
              /\ added' = Append(added, "planning")
              /\ entered' = entered \cup {"planning"}
              /\ opc' = "planning"
              /\ UNCHANGED <<raisedIn, errMsg>>
         ELSE /\ raisedIn' = "setup"
              /\ errMsg' = Err("worktree-failed")
              /\ opc' = "startCatch"
              /\ UNCHANGED <<labels, added, entered, worktree, intervalId>>
  /\ UNCHANGED <<autoApprove, decision, monitorSaw, outcome, prOpened>>
  /\ UNCHANGED <<qvars, tvars, notW, cleanupOnFailure, lateWrites>>

\* planningStage.execute resolves with the plan (it has emitted planning-complete)
PlanningStageReturns ==
  /\ opc = "planning"
  /\ onotes' = Note(onotes, "planning-complete")
  /\ opc' = "planned"
  /\ UNCHANGED <<labels, added, autoApprove, decision, monitorSaw, entered,
                 raisedIn, errMsg, outcome, prOpened>>
  /\ UNCHANGED <<qvars, tvars, xvars>>

\* planningStage.execute rejects
PlanningStageThrows ==
  /\ opc = "planning"
  /\ raisedIn' = "planning"
  /\ errMsg' = Err("planning-failed")
  /\ opc' = "startCatch"
  /\ UNCHANGED <<labels, added, onotes, autoApprove, decision, monitorSaw,
                 entered, outcome, prOpened>>
  /\ UNCHANGED <<qvars, tvars, xvars>>

\* start: updateMasterIssueWithPlan, transitionTo(awaiting-approval), event
StartAwaitApproval ==
  /\ opc = "planned"
  /\ labels' = TransitionTo(labels, "awaiting-approval")
  /\ added' = Append(added, "awaiting-approval")
  /\ onotes' = Note(onotes, "awaiting-approval")
  /\ opc' = "waitForApproval"
  /\ UNCHANGED <<autoApprove, decision, monitorSaw, entered, raisedIn, errMsg,
                 outcome, prOpened>>
  /\ UNCHANGED <<qvars, tvars, xvars>>

\* waitForApprovalAndContinue up to approvalMonitor.waitForApproval:
\* with autoApprove the approval label is added by addLabels
WaitForApprovalBegin ==
  /\ opc = "waitForApproval"
  /\ IF autoApprove
       THEN /\ labels' = labels \cup {"approved"}
            /\ added' = Append(added, "approved")
       ELSE UNCHANGED <<labels, added>>
  /\ opc' = "monitor"
  /\ UNCHANGED <<onotes, autoApprove, decision, monitorSaw, entered, raisedIn,
                 errMsg, outcome, prOpened>>
  /\ UNCHANGED <<qvars, tvars, xvars>>

\* the human reviewer labels the plan while the monitor is polling
UserDecides(d) ==
  /\ opc = "monitor"
  /\ ~autoApprove
  /\ decision = "none"
  /\ decision' = d
  /\ labels' = labels \cup {d}
  /\ UNCHANGED <<opc, added, onotes, autoApprove, monitorSaw, entered, raisedIn,
                 errMsg, outcome, prOpened>>
  /\ UNCHANGED <<qvars, tvars, xvars>>

\* ApprovalMonitor.checkApprovalStatus
CheckApprovalStatusSwapped(ls) ==
  [approved |-> "rejected" \in ls, rejected |-> "approved" \in ls]
CheckApprovalStatus(ls) ==
  [approved |-> "approved" \in ls, rejected |-> "rejected" \in ls]

\* a poll of ApprovalMonitor.waitForApproval that resolves the promise
\* (a poll that sees neither label re-arms the timer and changes nothing)
MonitorPoll ==
  /\ opc = "monitor"
  /\ LET status == CheckApprovalStatus(labels)
     IN /\ status.approved \/ status.rejected
        /\ IF status.approved
             THEN monitorSaw' = "approved" /\ opc' = "runImplementation"
             ELSE monitorSaw' = "rejected" /\ opc' = "cleanup"
  /\ UNCHANGED <<labels, added, onotes, autoApprove, decision, entered,
                 raisedIn, errMsg, outcome, prOpened>>
  /\ UNCHANGED <<qvars, tvars, xvars>>

\* WorktreeManager.cleanupWorktree: the worktree is removed, or the removal
\* fails and the error is only logged
CleanupWorktree(w) == {"removed", w}

\* cleanup after rejection: transitionTo(rejected), statusUpdater.stop(),
\* cleanupWorktree if worktree.cleanupOnFailure; start returns 'rejected'
Cleanup ==
  /\ opc = "cleanup"
  /\ labels' = TransitionTo(labels, "rejected")
  /\ added' = Append(added, "rejected")
  /\ intervalId' = StatusUpdaterStop
  /\ IF cleanupOnFailure
       THEN worktree' \in CleanupWorktree(worktree)
       ELSE UNCHANGED worktree
  /\ outcome' = "rejected"
  /\ opc' = "done"
  /\ UNCHANGED <<onotes, autoApprove, decision, monitorSaw, entered, raisedIn,
                 errMsg, prOpened>>
  /\ UNCHANGED <<qvars, tvars, notW, cleanupOnFailure, lateWrites>>

\* runImplementation: transitionTo(implementing), event, stage.execute called
RunImplementation ==
  /\ opc = "runImplementation"
  /\ labels' = TransitionTo(labels, "implementing")
  /\ added' = Append(added, "implementing")
  /\ onotes' = Note(onotes, "implementation-started")
  /\ entered' = entered \cup {"implementation"}
  /\ opc' = "implementing"
  /\ UNCHANGED <<autoApprove, decision, monitorSaw, raisedIn, errMsg, outcome,
                 prOpened>>
  /\ UNCHANGED <<qvars, tvars, xvars>>

\* implementationStage.execute settles: all tasks completed, some task failed
\* (result.failed > 0 makes runImplementation throw), or the resolver threw
ImplementationStageSettles ==
  /\ opc = "implementing"
  /\ \E r \in {"ok", "tasks-failed", "cyclic-dependency", "invalid-dependency"} :
       IF r = "ok"
         THEN opc' = "runTesting" /\ UNCHANGED <<raisedIn, errMsg>>
         ELSE /\ raisedIn' = "implementation"
              /\ errMsg' = Err(r)
              /\ opc' = "implementationCatch"
  /\ UNCHANGED <<labels, added, onotes, autoApprove, decision, monitorSaw,
                 entered, outcome, prOpened>>
  /\ UNCHANGED <<qvars, tvars, xvars>>

\* catch block of runImplementation
RunImplementationCatch ==
  /\ opc = "implementationCatch"
  /\ FailureRouting
  /\ opc' = "startCatch"
  /\ UNCHANGED <<autoApprove, decision, monitorSaw, entered, raisedIn, errMsg,
                 outcome, prOpened>>
  /\ UNCHANGED <<qvars, tvars, xvars>>

\* catch block of start: the error leaves start(id)
StartCatch ==
  /\ opc = "startCatch"
  /\ FailureRouting
  /\ outcome' = "threw"
  /\ opc' = "done"
  /\ UNCHANGED <<autoApprove, decision, monitorSaw, entered, raisedIn, errMsg,
                 prOpened>>
  /\ UNCHANGED <<qvars, tvars, xvars>>

\* runTesting: transitionTo(testing), event, testingStage.execute called
RunTesting ==
  /\ opc = "runTesting"
  /\ labels' = TransitionTo(labels, "testing")
  /\ added' = Append(added, "testing")
  /\ onotes' = Note(onotes, "testing-started")
  /\ entered' = entered \cup {"testing"}
  /\ opc' = "testing"
  /\ tpc' = "getTests"
  /\ UNCHANGED <<autoApprove, decision, monitorSaw, raisedIn, errMsg, outcome,
                 prOpened>>
  /\ UNCHANGED <<testIssues, deps, executed, tlab, fixes, tnotes, failedTests,
                 fixResults, cur, attemptNumber, passedAt, agentErrors, regressions,
                 healOrder>>
  /\ UNCHANGED <<qvars, xvars>>

\* catch block of runTesting
RunTestingCatch ==
  /\ opc = "testingCatch"
  /\ FailureRouting
  /\ opc' = "startCatch"
  /\ UNCHANGED <<autoApprove, decision, monitorSaw, entered, raisedIn, errMsg,
                 outcome, prOpened>>
  /\ UNCHANGED <<qvars, tvars, xvars>>

\* runCompletion: transitionTo(completing), completionStage.execute called
RunCompletion ==
  /\ opc = "runCompletion"
  /\ labels' = TransitionTo(labels, "completing")
  /\ added' = Append(added, "completing")
  /\ entered' = entered \cup {"completion"}
  /\ opc' = "completing"
  /\ UNCHANGED <<onotes, autoApprove, decision, monitorSaw, raisedIn, errMsg,
                 outcome, prOpened>>
  /\ UNCHANGED <<qvars, tvars, xvars>>

\* CompletionStage.execute resolves: branch pushed, change request opened and
\* linked, addLabels(pr-created), orchestration-complete, status updater stopped
CompletionStageReturns ==
  /\ opc = "completing"
  /\ prOpened' = TRUE
  /\ labels' = labels \cup {"pr-created"}
  /\ added' = Append(added, "pr-created")
  /\ onotes' = Note(onotes, "orchestration-complete")
  /\ intervalId' = StatusUpdaterStop
  /\ opc' = "completionReturned"
  /\ UNCHANGED <<autoApprove, decision, monitorSaw, entered, raisedIn, errMsg,
                 outcome>>
  /\ UNCHANGED <<qvars, tvars, notW, cleanupOnFailure, worktree, lateWrites>>

\* CompletionStage.execute rejects in one of the steps before addLabels,
\* before or after the change request was opened
CompletionStageThrows ==
  /\ opc = "completing"
  /\ \E pr \in BOOLEAN : prOpened' = pr
  /\ raisedIn' = "completion"
  /\ errMsg' = Err("completion-failed")
  /\ opc' = "completionCatch"
  /\ UNCHANGED <<labels, added, onotes, autoApprove, decision, monitorSaw,
                 entered, outcome>>
  /\ UNCHANGED <<qvars, tvars, xvars>>

\* runCompletion after the stage: transitionTo(completed); start returns
RunCompletionFinish ==
  /\ opc = "completionReturned"
  /\ labels' = TransitionTo(labels, "completed")
  /\ added' = Append(added, "completed")
  /\ outcome' = "approved"
  /\ opc' = "done"
  /\ UNCHANGED <<onotes, autoApprove, decision, monitorSaw, entered, raisedIn,
                 errMsg, prOpened>>
  /\ UNCHANGED <<qvars, tvars, xvars>>

\* catch block of runCompletion
RunCompletionCatch ==
  /\ opc = "completionCatch"
  /\ FailureRouting
  /\ opc' = "startCatch"
  /\ UNCHANGED <<autoApprove, decision, monitorSaw, entered, raisedIn, errMsg,
                 outcome, prOpened>>
  /\ UNCHANGED <<qvars, tvars, xvars>>

(***************************************************************************)
(* TestingStage, TestRetryCoordinator, TestResultAggregator                *)
(***************************************************************************)
FailureLabels == {"test-failed", "failed"}

\* rerunTest removes the failure markers before the test agent runs again
Strip(ls) == ls \ FailureLabels

\* identifyFailedTests / rerunTest: the test carries test-failed or failed
HasFailed(ls) == ls \cap FailureLabels # {}

\* TestResultAggregator.determineTestStatus: passed = none of the three labels
StatusPassed(ls) == ls \cap (FailureLabels \cup {"max-attempts-reached"}) = {}

\* dependencyResolver.resolveDependencies(allTests): the declared
\* prerequisites of every test, keyed by test number
ResolveDependencies == [d \in Tests |-> deps[d]]

\* dependencyResolver.createBatches(testIssues): a test is in a batch that
\* runs only after the batches of all its prerequisites
BatchReady(t) == deps[t] \subseteq executed

\* rerunDependentTests: the tests of allTests whose prerequisites include t
DependentsOf(t) == {d \in SeqToSet(testIssues) : t \in ResolveDependencies[d]}

\* testingStage.execute: getTestSubIssues; with no test sub-ticket the stage
\* returns {failed: 0} and runTesting returns
GetTestSubIssues ==
  /\ tpc = "getTests"
  /\ IF testIssues = <<>>
       THEN tpc' = "done" /\ opc' = "runCompletion"
       ELSE tpc' = "execute" /\ opc' = opc
  /\ UNCHANGED <<labels, added, onotes, autoApprove, decision, monitorSaw,
                 entered, raisedIn, errMsg, outcome, prOpened>>
  /\ UNCHANGED <<testIssues, deps, executed, tlab, fixes, tnotes, failedTests,
                 fixResults, cur, attemptNumber, passedAt, agentErrors, regressions,
                 healOrder>>
  /\ UNCHANGED <<qvars, xvars>>

\* executeTest(t) settles; batches follow the dependencies.  The test agent
\* leaves the ticket clean, or labelled test-failed (also set by executeTest on
\* a timeout or an agent error), or labelled failed
ExecuteTest(t) ==
  /\ tpc = "execute"
  /\ t \in SeqToSet(testIssues) \ executed
  /\ BatchReady(t)
  /\ \E ls \in {{}, {"test-failed"}, {"failed"}} : tlab' = [tlab EXCEPT ![t] = ls]
  /\ executed' = executed \cup {t}
  /\ UNCHANGED <<testIssues, deps, tpc, fixes, tnotes, failedTests, fixResults,
                 cur, attemptNumber, passedAt, agentErrors, regressions, healOrder>>
  /\ UNCHANGED <<qvars, ovars, xvars>>

\* the subsequence of s whose elements satisfy HasFailed
RECURSIVE FailedOf(_)
FailedOf(s) ==
  IF s = <<>> THEN <<>>
  ELSE (IF HasFailed(tlab[Head(s)]) THEN <<Head(s)>> ELSE <<>>) \o FailedOf(Tail(s))

\* identifyFailedTests, after every batch has settled
IdentifyFailedTests ==
  /\ tpc = "execute"
  /\ executed = SeqToSet(testIssues)
  /\ failedTests' = FailedOf(testIssues)
  /\ tpc' = IF FailedOf(testIssues) = <<>> THEN "aggregate" ELSE "fix"
  /\ UNCHANGED <<testIssues, deps, executed, tlab, fixes, tnotes, fixResults,
                 cur, attemptNumber, passedAt, agentErrors, regressions, healOrder>>
  /\ UNCHANGED <<qvars, ovars, xvars>>

\* fixFailedTests takes the next failed test; coordinateTestFix notifies
\* test-failed and enters its loop with attemptNumber = 1
CoordinateTestFixBegin ==
  /\ tpc = "fix"
  /\ failedTests # <<>>
  /\ cur' = Head(failedTests)
  /\ failedTests' = Tail(failedTests)
  /\ healOrder' = Append(healOrder, Head(failedTests))
  /\ tnotes' = NoteT(tnotes, Head(failedTests), "test-failed")
  /\ attemptNumber' = 1
  /\ tpc' = "attempt"
  /\ UNCHANGED <<testIssues, deps, executed, tlab, fixes, fixResults, passedAt,
                 agentErrors, regressions>>
  /\ UNCHANGED <<qvars, ovars, xvars>>

\* while (attemptNumber <= this.maxAttempts && !testPassed)
LoopContinuesOneMore(n, testPassed) == n <= maxAttempts + 1 /\ ~testPassed
LoopContinues(n, testPassed) == n <= maxAttempts /\ ~testPassed

\* handleSuccessfulFix: closeIssue on the fix sub-ticket of this attempt
CloseFixIssueSkipped(fx, t) == fx
CloseFixIssue(fx, t) == [fx EXCEPT ![t][Len(fx[t])] = "closed"]

\* the code after the loop: handleMaxAttemptsReached, return {success: false}
AfterLoopPassAware(tl, tn, t, testPassed) ==
  IF testPassed
    THEN [tl |-> tl, tn |-> tn, success |-> TRUE]
    ELSE [tl |-> [tl EXCEPT ![t] = @ \cup {"max-attempts-reached", "test-failed"}],
          tn |-> NoteT(tn, t, "test-max-attempts-reached"),
          success |-> FALSE]
AfterLoop(tl, tn, t, testPassed) ==
  [tl |-> [tl EXCEPT ![t] = @ \cup {"max-attempts-reached", "test-failed"}],
   tn |-> NoteT(tn, t, "test-max-attempts-reached"),
   success |-> FALSE]

\* coordinateTestFix returns to fixFailedTests, which pushes the result
ReturnToFixFailedTests(t, tl, tn, success) ==
  /\ tlab' = tl
  /\ tnotes' = tn
  /\ fixResults' = Append(fixResults, [test |-> t, success |-> success])
  /\ cur' = Null
  /\ attemptNumber' = 0
  /\ tpc' = "fix"

\* end of a loop iteration that did not return: attemptNumber has been
\* incremented to n; re-test the loop condition
LoopBack(t, n, tl, tn, testPassed) ==
  IF LoopContinues(n, testPassed)
    THEN /\ tlab' = tl
         /\ tnotes' = tn
         /\ attemptNumber' = n
         /\ UNCHANGED <<fixResults, cur, tpc>>
    ELSE LET r == AfterLoop(tl, tn, t, testPassed)
         IN ReturnToFixFailedTests(t, r.tl, r.tn, r.success)

\* labels after rerunDependentTests re-ran the dependents of t in allTests
\* order up to and including f (f = Null: all of them passed); a re-run that
\* passes leaves the dependent clean, the failing one carries fl
AfterDependents(tl, t, f, fl) ==
  [d \in Tests |->
     IF d \notin DependentsOf(t) THEN tl[d]
     ELSE IF f = Null \/ d < f THEN Strip(tl[d])
     ELSE IF d = f THEN Strip(tl[d]) \cup fl
     ELSE tl[d]]

\* one iteration of the loop of coordinateTestFix, with the code after the
\* loop when the iteration ends it
FixAttempt ==
  /\ tpc = "attempt"
  /\ LET t == cur
         n == attemptNumber
         created == [fixes EXCEPT ![t] = Append(@, "open")]
         started == NoteT(tnotes, t, "test-fix-started")
         agentDone == NoteT(started, t, "test-fix-completed")
     IN \E o \in {"fix-agent-fails", "rerun-fails", "rerun-times-out", "rerun-passes"} :
          CASE o = "fix-agent-fails" ->
                 \* runFixAgent throws: caught, attemptNumber++
                 /\ agentErrors < MaxAgentErrors
                 /\ agentErrors' = agentErrors + 1
                 /\ fixes' = created
                 /\ LoopBack(t, n + 1, tlab, started, FALSE)
                 /\ UNCHANGED <<passedAt, regressions>>
            [] o = "rerun-fails" ->
                 \* the test agent labels the test test-failed again
                 /\ fixes' = created
                 /\ LoopBack(t, n + 1, [tlab EXCEPT ![t] = Strip(@) \cup {"test-failed"}],
                             agentDone, FALSE)
                 /\ UNCHANGED <<passedAt, agentErrors, regressions>>
            [] o = "rerun-times-out" ->
                 \* rerunTest catches the timeout and returns false
                 /\ fixes' = created
                 /\ LoopBack(t, n + 1, [tlab EXCEPT ![t] = Strip(@)], agentDone, FALSE)
                 /\ UNCHANGED <<passedAt, agentErrors, regressions>>
            [] o = "rerun-passes" ->
                 \* testPassed = true; handleSuccessfulFix; rerunDependentTests
                 /\ fixes' = CloseFixIssue(created, t)
                 /\ passedAt' = [passedAt EXCEPT ![t] = n]
                 /\ UNCHANGED agentErrors
                 /\ LET tl1 == [tlab EXCEPT ![t] = Strip(@)]
                        tn1 == NoteT(agentDone, t, "test-passed-after-fix")
                    IN \E f \in DependentsOf(t) \cup {Null} :
                       \E fl \in {{"test-failed"}, {}} :
                         IF f = Null
                           THEN /\ ReturnToFixFailedTests(t, AfterDependents(tl1, t, f, fl),
                                                          tn1, TRUE)
                                /\ UNCHANGED regressions
                           ELSE \* the error thrown by rerunDependentTests is
                                \* caught by the catch of the loop body
                                /\ regressions' = regressions \cup {<<t, f>>}
                                /\ LoopBack(t, n + 1, AfterDependents(tl1, t, f, fl),
                                            tn1, TRUE)
  /\ UNCHANGED <<testIssues, deps, executed, failedTests, healOrder>>
  /\ UNCHANGED <<qvars, ovars, xvars>>

\* fixFailedTests has returned: tests that are permanently failed make
\* testingStage.execute throw
FixFailedTestsDone ==
  /\ tpc = "fix"
  /\ failedTests = <<>>
  /\ IF \E i \in 1..Len(fixResults) : ~fixResults[i].success
       THEN /\ tpc' = "done"
            /\ raisedIn' = "testing"
            /\ errMsg' = Err("could-not-be-fixed-after-maximum-attempts")
            /\ opc' = "testingCatch"
       ELSE /\ tpc' = "aggregate"
            /\ UNCHANGED <<raisedIn, errMsg, opc>>
  /\ UNCHANGED <<labels, added, onotes, autoApprove, decision, monitorSaw,
                 entered, outcome, prOpened>>
  /\ UNCHANGED <<testIssues, deps, executed, tlab, fixes, tnotes, failedTests,
                 fixResults, cur, attemptNumber, passedAt, agentErrors, regressions,
                 healOrder>>
  /\ UNCHANGED <<qvars, xvars>>

\* aggregateResults: number of tests whose fresh labels are not a pass
AggregateFailed == Cardinality({t \in SeqToSet(testIssues) : ~StatusPassed(tlab[t])})

\* testingStage.execute returns the aggregate; runTesting throws when
\* result.failed > 0 and returns otherwise
AggregateResults ==
  /\ tpc = "aggregate"
  /\ tpc' = "done"
  /\ IF AggregateFailed > 0
       THEN /\ raisedIn' = "testing"
            /\ errMsg' = Err("testing-failed")
            /\ opc' = "testingCatch"
       ELSE /\ opc' = "runCompletion"
            /\ UNCHANGED <<raisedIn, errMsg>>
  /\ UNCHANGED <<labels, added, onotes, autoApprove, decision, monitorSaw,
                 entered, outcome, prOpened>>
  /\ UNCHANGED <<testIssues, deps, executed, tlab, fixes, tnotes, failedTests,
                 fixResults, cur, attemptNumber, passedAt, agentErrors, regressions,
                 healOrder>>
  /\ UNCHANGED <<qvars, xvars>>

(***************************************************************************)
(* TestingStage.executeBatch                                               *)
(***************************************************************************)
BatchIdx == 1..MaxBatch

\* values of execution.parallel.maxConcurrency in the configuration
ConcurrencyConfigs == {"auto", "unset", "1", "2"}

\* parseInt(maxConcurrency); 0 stands for NaN
ParseInt(c) == IF c = "1" THEN 1 ELSE IF c = "2" THEN 2 ELSE 0

\* getMaxConcurrency
GetMaxConcurrency ==
  IF mcCfg = "auto" THEN cpus
  ELSE IF ParseInt(mcCfg) = 0 THEN 4 ELSE ParseInt(mcCfg)

\* no batch is being executed
BatchIdle ==
  /\ mcCfg = "unset"
  /\ cpus = 1
  /\ batchLen = 0
  /\ bstat = [i \in BatchIdx |-> "new"]
  /\ executing = <<>>
  /\ bnext = 1
  /\ bpc = "idle"

\* executeBatch is called with a batch of batchLen tests
InitBatch ==
  /\ mcCfg \in ConcurrencyConfigs
  /\ cpus \in 1..MaxCpus
  /\ batchLen \in 1..MaxBatch
  /\ bstat = [i \in BatchIdx |-> "new"]
  /\ executing = <<>>
  /\ bnext = 1
  /\ bpc = "loop"

\* executing.findIndex(p => p.status === 'fulfilled' || p.status === 'rejected'):
\* a promise has no status property, so no element matches
FindIndexSettled(ex) == 0 - 1

\* executing.splice(idx, 1); a negative idx counts from the end of the array
Splice(ex, idx) ==
  LET at == IF idx < 0 THEN Len(ex) + idx + 1 ELSE idx + 1
  IN [k \in 1..(Len(ex) - 1) |-> IF k < at THEN ex[k] ELSE ex[k + 1]]

\* one pass of the for loop up to its await: executeTest is called and its
\* promise pushed
BatchLaunch ==
  /\ bpc = "loop"
  /\ bnext <= batchLen
  /\ bstat' = [bstat EXCEPT ![bnext] = "running"]
  /\ executing' = Append(executing, bnext)
  /\ bnext' = bnext + 1
  /\ bpc' = IF Len(executing) + 1 >= GetMaxConcurrency THEN "race" ELSE "loop"
  /\ UNCHANGED <<mcCfg, cpus, batchLen>>
  /\ UNCHANGED <<qvars, ovars, tvars, notB>>

\* the promise of executeTest(i) settles
TestSettles(i) ==
  /\ bstat[i] = "running"
  /\ bstat' = [bstat EXCEPT ![i] = "settled"]
  /\ UNCHANGED <<mcCfg, cpus, batchLen, executing, bnext, bpc>>
  /\ UNCHANGED <<qvars, ovars, tvars, notB>>

\* await Promise.race(executing) resumes once a promise of the array has
\* settled; then the splice
RaceResumes ==
  /\ bpc = "race"
  /\ \E k \in 1..Len(executing) : bstat[executing[k]] = "settled"
  /\ executing' = Splice(executing, FindIndexSettled(executing))
  /\ bpc' = "loop"
  /\ UNCHANGED <<mcCfg, cpus, batchLen, bstat, bnext>>
  /\ UNCHANGED <<qvars, ovars, tvars, notB>>

\* the for loop is over: await Promise.allSettled(executing)
BatchAwaitRemaining ==
  /\ bpc = "loop"
  /\ bnext > batchLen
  /\ bpc' = "allSettled"
  /\ UNCHANGED <<mcCfg, cpus, batchLen, bstat, executing, bnext>>
  /\ UNCHANGED <<qvars, ovars, tvars, notB>>

\* Promise.allSettled(executing) resolves and executeBatch returns
BatchReturns ==
  /\ bpc = "allSettled"
  /\ \A k \in 1..Len(executing) : bstat[executing[k]] = "settled"
  /\ bpc' = "done"
  /\ UNCHANGED <<mcCfg, cpus, batchLen, bstat, executing, bnext>>
  /\ UNCHANGED <<qvars, ovars, tvars, notB>>


(***************************************************************************)
(* DependencyResolver and ImplementationStage                              *)
(***************************************************************************)
Tasks == 1..NumTasks

\* the elements of a set of task ids as a sequence sorted by id
RECURSIVE SortByIdDescending(_)
SortByIdDescending(S) ==
  IF S = {} THEN <<>>
  ELSE LET m == CHOOSE x \in S : \A y \in S : x >= y
       IN <<m>> \o SortByIdDescending(S \ {m})

RECURSIVE SortById(_)
SortById(S) ==
  IF S = {} THEN <<>>
  ELSE LET m == CHOOSE x \in S : \A y \in S : x <= y
       IN <<m>> \o SortById(S \ {m})

\* resolveBatches: repeated extraction of the tasks whose dependencies are
\* all completed; each batch sorted by id
RECURSIVE ResolveBatchesFrom(_, _)
ResolveBatchesFrom(graph, done) ==
  LET currentBatch == {t \in Tasks \ done : graph[t] \subseteq done}
  IN IF currentBatch = {} THEN <<>>
     ELSE <<SortById(currentBatch)>> \o ResolveBatchesFrom(graph, done \cup currentBatch)

ResolveBatches(graph) == ResolveBatchesFrom(graph, {})

\* tasks placed in some batch
RECURSIVE Batched(_)
Batched(bs) == IF bs = <<>> THEN {} ELSE SeqToSet(Head(bs)) \cup Batched(Tail(bs))

\* an id that names no task of the list
UnknownTask == NumTasks + 1

\* buildDependencyGraph throws when a dependency names no task of the list
BuildDependencyGraphNoCheck(graph) == FALSE
BuildDependencyGraphThrows(graph) ==
  \E t \in Tasks : \E depId \in graph[t] : depId \notin Tasks

\* resolveBatches throws when a task is left over (circular dependency)
ResolveBatchesThrows(graph) == Cardinality(Batched(ResolveBatches(graph))) # NumTasks

\* resolve throws
ResolveThrows(graph) == BuildDependencyGraphThrows(graph) \/ ResolveBatchesThrows(graph)

\* the error resolve throws, by its message
ResolveError(graph) ==
  IF BuildDependencyGraphThrows(graph) THEN "depends on non-existent task"
  ELSE IF ResolveBatchesThrows(graph) THEN "Circular dependency detected or orphaned tasks"
  ELSE "none"

\* resolve has not been called
ResolverIdle ==
  /\ dgraph = [t \in Tasks |-> {}]
  /\ dpc = "idle"
  /\ dbatches = <<>>
  /\ derror = "none"

\* resolve is called with a list of tasks with distinct ids, each with a list
\* of dependency ids that may name tasks of the list or not
InitResolver ==
  /\ dgraph \in [Tasks -> SUBSET (Tasks \cup {UnknownTask})]
  /\ dpc = "call"
  /\ dbatches = <<>>
  /\ derror = "none"

\* resolve(tasks) returns the batches or throws
Resolve ==
  /\ dpc = "call"
  /\ IF ResolveThrows(dgraph)
       THEN /\ dpc' = "threw"
            /\ derror' = ResolveError(dgraph)
            /\ UNCHANGED dbatches
       ELSE /\ dpc' = "returned"
            /\ dbatches' = ResolveBatches(dgraph)
            /\ UNCHANGED derror
  /\ UNCHANGED dgraph
  /\ UNCHANGED <<qvars, ovars, tvars, notD>>

\* no implementation stage is running
ImplIdle ==
  /\ igraph = [t \in Tasks |-> {}]
  /\ ibatches = <<>>
  /\ ibi = 0
  /\ istat = [t \in Tasks |-> "new"]
  /\ iresults = [completed |-> 0, failed |-> 0]
  /\ ipc = "idle"

\* execute is called with a plan whose tasks declare dependencies
InitImpl ==
  /\ igraph \in [Tasks -> SUBSET Tasks]
  /\ ibatches = <<>>
  /\ ibi = 0
  /\ istat = [t \in Tasks |-> "new"]
  /\ iresults = [completed |-> 0, failed |-> 0]
  /\ ipc = "resolve"

\* dependencyResolver.resolve returns the batches or throws
ImplResolve ==
  /\ ipc = "resolve"
  /\ IF ResolveThrows(igraph)
       THEN ipc' = "threw" /\ UNCHANGED <<ibatches, ibi>>
       ELSE /\ ibatches' = ResolveBatches(igraph)
            /\ ibi' = 1
            /\ ipc' = "launch"
  /\ UNCHANGED <<igraph, istat, iresults>>
  /\ UNCHANGED <<qvars, ovars, tvars, notI>>

\* executeBatch: executeTask is called for every task of the batch, then
\* Promise.allSettled is awaited
ImplBatchLaunch ==
  /\ ipc = "launch"
  /\ ibi <= Len(ibatches)
  /\ istat' = [t \in Tasks |->
                 IF t \in SeqToSet(ibatches[ibi]) THEN "running" ELSE istat[t]]
  /\ ipc' = "await"
  /\ UNCHANGED <<igraph, ibatches, ibi, iresults>>
  /\ UNCHANGED <<qvars, ovars, tvars, notI>>

\* the promise of executeTask(t) is fulfilled or rejected
TaskSettles(t, ok) ==
  /\ istat[t] = "running"
  /\ istat' = [istat EXCEPT ![t] = IF ok THEN "completed" ELSE "failed"]
  /\ UNCHANGED <<igraph, ibatches, ibi, iresults, ipc>>
  /\ UNCHANGED <<qvars, ovars, tvars, notI>>

\* if (batchResults.failed > 0) break
StopAfterBatchNever(f) == FALSE
StopAfterBatch(f) == f > 0

\* Promise.allSettled resolves: executeBatch counts the results and the loop
\* of execute adds them up, breaks or goes on to the next batch
ImplBatchSettled ==
  /\ ipc = "await"
  /\ \A t \in SeqToSet(ibatches[ibi]) : istat[t] \in {"completed", "failed"}
  /\ LET c == Cardinality({t \in SeqToSet(ibatches[ibi]) : istat[t] = "completed"})
         f == Cardinality({t \in SeqToSet(ibatches[ibi]) : istat[t] = "failed"})
     IN /\ iresults' = [completed |-> iresults.completed + c,
                        failed |-> iresults.failed + f]
        /\ IF StopAfterBatch(f) \/ ibi = Len(ibatches)
             THEN ipc' = "returned" /\ ibi' = ibi
             ELSE ipc' = "launch" /\ ibi' = ibi + 1
  /\ UNCHANGED <<igraph, ibatches, istat>>
  /\ UNCHANGED <<qvars, ovars, tvars, notI>>

(***************************************************************************)
(* GitHubPoller                                                            *)
(***************************************************************************)
\* invocations of poll() that can be suspended at the same time
PollIds == {1, 2}

FreePoll == [pc |-> "free", list |-> <<>>, cur |-> Null, stripped |-> {},
             offered |-> {}, metQueued |-> {}]

NoPollEnded == [n |-> 0, stripped |-> {}, offered |-> {}, metQueued |-> {},
                failed |-> FALSE]

\* the poller as constructed, before start()
PollerFields ==
  /\ plabel = [i \in Issues |-> FALSE]
  /\ isPolling = FALSE
  /\ polls = [k \in PollIds |-> FreePoll]
  /\ pollCalls = 0
  /\ pollSkips = 0
  /\ relabels = 0
  /\ ended = NoPollEnded

\* no poller is attached to the queue
PollerIdle == PollerFields /\ qlabel = [i \in Issues |-> FALSE]

\* the poller is started on a repository in which some tickets are labelled
InitPoller == PollerFields /\ qlabel \in [Issues -> BOOLEAN]

\* the orders in which the tracker can list the tickets of S
Orderings(S) ==
  {o \in [1..Cardinality(S) -> S] : \A a, b \in 1..Cardinality(S) : a # b => o[a] # o[b]}

\* the id is queued or running in a queue with waiting list q and running id r
InQueue(i, q, r) == r = i \/ i \in SeqToSet(q)

\* if (this.queue.contains(issueNumber)) continue
PollSkipsNever(i, q, r) == FALSE
PollSkips(i, q, r) == r = i \/ i \in SeqToSet(q)

\* the synchronous head of the for loop: pass over the tickets the queue
\* contains; met collects the tickets that were queued or running when the
\* loop reached them
RECURSIVE PollSkip(_, _, _, _)
PollSkip(list, met, q, r) ==
  IF list = <<>> THEN [list |-> list, met |-> met]
  ELSE LET h == Head(list)
           met2 == IF InQueue(h, q, r) THEN met \cup {h} ELSE met
       IN IF PollSkips(h, q, r)
            THEN PollSkip(Tail(list), met2, q, r)
            ELSE [list |-> list, met |-> met2]

\* finally { this.isPolling = false }
PollEnd(k, rec, isFailed) ==
  /\ isPolling' = FALSE
  /\ polls' = [polls EXCEPT ![k] = FreePoll]
  /\ ended' = [n |-> ended.n + 1, stripped |-> rec.stripped, offered |-> rec.offered,
               metQueued |-> rec.metQueued, failed |-> isFailed]

\* the for loop goes on with the tickets of list, in a queue with waiting
\* list q and running id r: up to the next await, or to the end of poll()
PollContinue(k, rec, list, q, r) ==
  LET sk == PollSkip(list, rec.metQueued, q, r)
  IN IF sk.list = <<>>
       THEN PollEnd(k, [rec EXCEPT !.metQueued = sk.met], FALSE)
       ELSE /\ polls' = [polls EXCEPT ![k] =
                           [rec EXCEPT !.pc = "removing", !.cur = Head(sk.list),
                                       !.list = Tail(sk.list), !.metQueued = sk.met]]
            /\ UNCHANGED <<isPolling, ended>>

\* if (this.isPolling) return
PollMayEnterNoGuard == TRUE
PollMayEnter == ~isPolling

\* poll() is invoked by the interval timer, by start() or by triggerPoll()
PollInvoke ==
  /\ pollCalls < MaxPolls
  /\ pollCalls' = pollCalls + 1
  /\ IF ~PollMayEnter
       THEN /\ pollSkips' = pollSkips + 1
            /\ UNCHANGED <<isPolling, polls>>
       ELSE /\ \E k \in PollIds : polls[k].pc = "free"
            /\ LET k == CHOOSE j \in PollIds :
                          /\ polls[j].pc = "free"
                          /\ \A m \in PollIds : polls[m].pc = "free" => j <= m
               IN polls' = [polls EXCEPT ![k] = [FreePoll EXCEPT !.pc = "query"]]
            /\ isPolling' = TRUE
            /\ UNCHANGED pollSkips
  /\ UNCHANGED <<qlabel, plabel, relabels, ended>>
  /\ UNCHANGED <<qvars, ovars, tvars, notP>>

\* the issue list query resolves with the open tickets that carry the queue
\* label, in some order
QueryResolves(k) ==
  /\ polls[k].pc = "query"
  /\ \E o \in Orderings({i \in Issues : qlabel[i]}) :
       PollContinue(k, polls[k], o, queue, running)
  /\ UNCHANGED <<qlabel, plabel, pollCalls, pollSkips, relabels>>
  /\ UNCHANGED <<qvars, ovars, tvars, notP>>

\* the issue list query rejects: outer catch, finally
QueryRejects(k) ==
  /\ polls[k].pc = "query"
  /\ PollEnd(k, polls[k], TRUE)
  /\ UNCHANGED <<qlabel, plabel, pollCalls, pollSkips, relabels>>
  /\ UNCHANGED <<qvars, ovars, tvars, notP>>

\* removeLabel(queueLabel) resolves; addLabels is awaited next
RemoveLabelResolves(k) ==
  /\ polls[k].pc = "removing"
  /\ qlabel' = [qlabel EXCEPT ![polls[k].cur] = FALSE]
  /\ polls' = [polls EXCEPT ![k].pc = "adding",
                            ![k].stripped = @ \cup {polls[k].cur}]
  /\ UNCHANGED <<plabel, isPolling, pollCalls, pollSkips, relabels, ended>>
  /\ UNCHANGED <<qvars, ovars, tvars, notP>>

\* removeLabel rejects: inner catch, next ticket
RemoveLabelRejects(k) ==
  /\ polls[k].pc = "removing"
  /\ PollContinue(k, polls[k], polls[k].list, queue, running)
  /\ UNCHANGED <<qlabel, plabel, pollCalls, pollSkips, relabels>>
  /\ UNCHANGED <<qvars, ovars, tvars, notP>>

\* addLabels(processingLabel) resolves; this.queue.enqueue(issueNumber) is
\* called (an error it throws is caught); next ticket
AddLabelsResolves(k) ==
  /\ polls[k].pc = "adding"
  /\ plabel' = [plabel EXCEPT ![polls[k].cur] = TRUE]
  /\ EnqueueBody(polls[k].cur)
  /\ PollContinue(k, [polls[k] EXCEPT !.offered = @ \cup {polls[k].cur}],
                  polls[k].list, queue', running')
  /\ UNCHANGED <<calls, lastCall>>
  /\ UNCHANGED <<qlabel, pollCalls, pollSkips, relabels>>
  /\ UNCHANGED <<ovars, tvars, notP>>

\* addLabels rejects: inner catch, next ticket
AddLabelsRejects(k) ==
  /\ polls[k].pc = "adding"
  /\ PollContinue(k, polls[k], polls[k].list, queue, running)
  /\ UNCHANGED <<qlabel, plabel, pollCalls, pollSkips, relabels>>
  /\ UNCHANGED <<qvars, ovars, tvars, notP>>

\* a user puts the queue label on an open ticket
UserLabels(i) ==
  /\ relabels < MaxRelabels
  /\ ~qlabel[i]
  /\ relabels' = relabels + 1
  /\ qlabel' = [qlabel EXCEPT ![i] = TRUE]
  /\ UNCHANGED <<plabel, isPolling, polls, pollCalls, pollSkips, ended>>
  /\ UNCHANGED <<qvars, ovars, tvars, notP>>

(***************************************************************************)
(* ModelFailoverManager                                                    *)
(***************************************************************************)
Agents == 1..NumAgents

NoTimeout == [n |-> 0, agent |-> Null, ret |-> "null"]

\* new ModelFailoverManager(config, ...), no execute in progress
FailoverFields ==
  /\ currentModels = [a \in Agents |-> "none"]
  /\ failoverCounts = [a \in Agents |-> 0]
  /\ lastTimeout = NoTimeout
  /\ xpc = "idle"
  /\ xagent = Null
  /\ xmodel = "none"
  /\ failoverAttempts = 0
  /\ submissions = 0
  /\ executions = 0
  /\ xresult = "none"

\* the default configuration: failover enabled, cap 2, no failback models
FailoverIdle ==
  /\ FailoverFields
  /\ enabled = TRUE
  /\ failbackModels = [a \in Agents |-> FALSE]
  /\ maxFailoversPerAgent = 2

InitFailover ==
  /\ FailoverFields
  /\ enabled \in BOOLEAN
  /\ failbackModels \in [Agents -> BOOLEAN]
  /\ maxFailoversPerAgent \in 0..MaxFailoversCfg

\* getCurrentModel(agentName, defaultModel): the model returned when
\* this.currentModels is cm
GetCurrentModelIgnoresFailover(a, cm) == "default"
GetCurrentModel(a, cm) ==
  IF ~enabled THEN "default"
  ELSE IF cm[a] # "none" THEN cm[a]
  ELSE "default"

\* getCurrentModel(agentName, defaultModel): this.currentModels afterwards
\* when it is cm before
GetCurrentModelSets(a, cm) ==
  IF enabled /\ cm[a] = "none"
    THEN [cm EXCEPT ![a] = "default"]
    ELSE cm

\* if (failoverCount >= this.maxFailoversPerAgent)
CapReachedOffByOne(count) == count > maxFailoversPerAgent
CapReached(count) == count >= maxFailoversPerAgent

\* _getFailbackModel(agentName)
GetFailbackModel(a) == IF failbackModels[a] THEN "failback" ELSE "null"

\* handleModelTimeout(event): what it returns
HandleModelTimeoutReturns(a) ==
  IF ~enabled THEN "null"
  ELSE IF CapReached(failoverCounts[a]) THEN "null"
  ELSE GetFailbackModel(a)

\* handleModelTimeout(event): this.currentModels afterwards
HandleModelTimeoutSets(a) ==
  IF HandleModelTimeoutReturns(a) = "null"
    THEN currentModels
    ELSE [currentModels EXCEPT ![a] = HandleModelTimeoutReturns(a)]

\* handleModelTimeout(event), followed by retry calls of getCurrentModel
HandleModelTimeout(a, retry) ==
  LET ret == HandleModelTimeoutReturns(a)
      cm == HandleModelTimeoutSets(a)
  IN /\ lastTimeout' = [n |-> lastTimeout.n + 1, agent |-> a, ret |-> ret]
     /\ failoverCounts' = IF ret = "null" THEN failoverCounts
                          ELSE [failoverCounts EXCEPT ![a] = @ + 1]
     /\ currentModels' = IF retry THEN GetCurrentModelSets(a, cm) ELSE cm

\* resetAgent(agentName)
ResetAgent(a) ==
  /\ currentModels' = [currentModels EXCEPT ![a] = "none"]
  /\ failoverCounts' = [failoverCounts EXCEPT ![a] = 0]

(***************************************************************************)
(* AgentExecutor.execute                                                   *)
(***************************************************************************)
\* execute(agentName, prompt, options) with a statusResilienceManager: the
\* first executeFn() call reads the current model and submits the prompt
ExecuteStart(a) ==
  /\ xpc = "idle"
  /\ executions < MaxExecutions
  /\ executions' = executions + 1
  /\ xagent' = a
  /\ failoverAttempts' = 0
  /\ xmodel' = GetCurrentModel(a, currentModels)
  /\ currentModels' = GetCurrentModelSets(a, currentModels)
  /\ submissions' = 1
  /\ xpc' = "submitted"
  /\ xresult' = "none"
  /\ UNCHANGED <<enabled, failbackModels, maxFailoversPerAgent, failoverCounts, lastTimeout>>
  /\ UNCHANGED <<qvars, ovars, tvars, notF>>

\* client.execute resolves: 'agent-completed' is reported, execute returns
ClientResolves ==
  /\ xpc = "submitted"
  /\ ResetAgent(xagent)
  /\ xpc' = "idle"
  /\ xresult' = "completed"
  /\ UNCHANGED <<enabled, failbackModels, maxFailoversPerAgent, lastTimeout, xagent,
                 xmodel, failoverAttempts, submissions, executions>>
  /\ UNCHANGED <<qvars, ovars, tvars, notF>>

\* isTimeout && options.statusResilienceManager &&
\*   failoverAttempts < maxFailoverAttempts - 1
MayRetry == failoverAttempts < maxFailoverAttempts - 1

\* client.execute rejects with a timeout error: 'model-timeout' is reported,
\* the error is rethrown and the failover loop retries or throws
ClientTimesOut ==
  /\ xpc = "submitted"
  /\ IF MayRetry
       THEN /\ HandleModelTimeout(xagent, TRUE)
            /\ failoverAttempts' = failoverAttempts + 1
            /\ xmodel' = GetCurrentModel(xagent, HandleModelTimeoutSets(xagent))
            /\ submissions' = submissions + 1
            /\ UNCHANGED <<xpc, xresult>>
       ELSE /\ HandleModelTimeout(xagent, FALSE)
            /\ xpc' = "idle"
            /\ xresult' = "failed"
            /\ UNCHANGED <<xmodel, failoverAttempts, submissions>>
  /\ UNCHANGED <<enabled, failbackModels, maxFailoversPerAgent, xagent, executions>>
  /\ UNCHANGED <<qvars, ovars, tvars, notF>>

\* the health check fails or client.execute rejects with another error: the
\* error is rethrown by executeFn and by the failover loop
ClientFails ==
  /\ xpc = "submitted"
  /\ xpc' = "idle"
  /\ xresult' = "failed"
  /\ UNCHANGED <<enabled, failbackModels, maxFailoversPerAgent, currentModels,
                 failoverCounts, lastTimeout, xagent, xmodel, failoverAttempts,
                 submissions, executions>>
  /\ UNCHANGED <<qvars, ovars, tvars, notF>>

(***************************************************************************)
(* RetryManager                                                            *)
(***************************************************************************)
nonRetryablePatterns ==
  {"rate limit", "quota exceeded", "authentication", "not found", "permission denied"}

\* the errors fn can reject with: the lower-cased message contains one of the
\* phrases or none of them ("other"), and the caller may have set
\* error.shouldRetry = false
Errors ==
  {[msg |-> m, shouldRetry |-> TRUE, wraps |-> FALSE] : m \in nonRetryablePatterns \cup {"other"}}
    \cup {[msg |-> "other", shouldRetry |-> FALSE, wraps |-> FALSE]}

NoLastError == [msg |-> "none", shouldRetry |-> TRUE, wraps |-> FALSE]

\* the values fn can resolve with
Values == {"v1", "v2"}

\* errorMessage.includes(pattern)
Includes(err, pattern) == err.msg = pattern

\* isRetryable(error)
IsRetryable(err) == ~ \E pattern \in nonRetryablePatterns : Includes(err, pattern)

\* Math.pow(b, e) over non-negative integers
RECURSIVE Pow(_, _)
Pow(b, e) == IF e <= 0 THEN 1 ELSE b * Pow(b, e - 1)

\* calculateBackoff(attempt)
CalculateBackoffFromAttempt(a) == initialDelayMs * Pow(backoffMultiplier, a)
CalculateBackoff(a) == initialDelayMs * Pow(backoffMultiplier, a - 1)

RetryFields ==
  /\ invocations = 0
  /\ lastError = NoLastError
  /\ delays = <<>>
  /\ fnValue = "none"
  /\ retryResult = "none"

\* no executeWithRetry call is in progress
RetryIdle ==
  /\ RetryFields
  /\ retryMaxAttempts = 1
  /\ initialDelayMs = 1
  /\ backoffMultiplier = 1
  /\ attempt = 0
  /\ rpc = "idle"

\* executeWithRetry(fn, context) has been called and is at the head of its
\* loop with attempt = 1
InitRetry ==
  /\ RetryFields
  /\ retryMaxAttempts \in 1..MaxAttemptsCfg
  /\ initialDelayMs \in 1..MaxInitialDelay
  /\ backoffMultiplier \in 1..MaxMultiplier
  /\ attempt = 1
  /\ rpc = "calling"

\* fn(attempt) resolves with v: return result
FnResolves(v) ==
  /\ rpc = "calling"
  /\ invocations' = invocations + 1
  /\ fnValue' = v
  /\ retryResult' = v
  /\ rpc' = "returned"
  /\ UNCHANGED <<retryMaxAttempts, initialDelayMs, backoffMultiplier, attempt, lastError,
                 delays>>
  /\ UNCHANGED <<qvars, ovars, tvars, notR>>

\* fn(attempt) rejects with err: rethrow, give up, or sleep before the retry
FnRejects(err) ==
  /\ rpc = "calling"
  /\ invocations' = invocations + 1
  /\ lastError' = err
  /\ IF ~IsRetryable(err)
       THEN /\ rpc' = "thrown"
            /\ retryResult' = err
            /\ UNCHANGED delays
       ELSE IF attempt >= retryMaxAttempts
         THEN /\ rpc' = "thrown"
              /\ retryResult' = [err EXCEPT !.wraps = TRUE]
              /\ UNCHANGED delays
         ELSE /\ rpc' = "sleeping"
              /\ delays' = Append(delays, CalculateBackoff(attempt))
              /\ UNCHANGED retryResult
  /\ UNCHANGED <<retryMaxAttempts, initialDelayMs, backoffMultiplier, attempt, fnValue>>
  /\ UNCHANGED <<qvars, ovars, tvars, notR>>

\* the sleep ends: attempt++ and the next iteration invokes fn
SleepEnds ==
  /\ rpc = "sleeping"
  /\ attempt' = attempt + 1
  /\ rpc' = "calling"
  /\ UNCHANGED <<retryMaxAttempts, initialDelayMs, backoffMultiplier, invocations,
                 lastError, delays, fnValue, retryResult>>
  /\ UNCHANGED <<qvars, ovars, tvars, notR>>

(***************************************************************************)
(* StatusUpdater: debounced progress updates of one sub-ticket             *)
(***************************************************************************)
\* the progress fields modelled, and their values (Null: undefined)
Fields == {"agentMessage", "toolsUsed"}
FieldValues == {1, 2}

\* the timers and objects are numbered by the call that created them
TimerIds == 1..MaxProgressCalls

\* the progress arguments: at least one field is set
Progresses ==
  {pr \in [Fields -> FieldValues \cup {Null}] : \E k \in Fields : pr[k] # Null}

NoFlush == [pc |-> "none", pending |-> Null, body |-> [k \in Fields |-> Null]]

\* new StatusUpdater(...): no pending update, no timer
InitProgress ==
  /\ pendingObjs = [o \in TimerIds |-> [k \in Fields |-> Null]]
  /\ pendingProgressUpdates = Null
  /\ progressUpdateTimers = Null
  /\ liveTimers = {}
  /\ flushes = [t \in TimerIds |-> NoFlush]
  /\ ticketBody = [k \in Fields |-> Null]
  /\ bodyWrites = 0
  /\ progressCalls = 0
  /\ windows = 0
  /\ lastSet = [k \in Fields |-> Null]

\* pending.x = progress.x for every field progress defines
Merge(obj, pr) == [k \in Fields |-> IF pr[k] # Null THEN pr[k] ELSE obj[k]]

\* updateTaskProgress(issueNumber, progress): merge into the pending object,
\* clear the timer in the map, set a new timer of 500 ms.  The call belongs to
\* the window of the call before it when that call's timer has not fired yet.
UpdateTaskProgress(pr) ==
  /\ progressCalls < MaxProgressCalls
  /\ LET n == progressCalls + 1
         obj == IF pendingProgressUpdates = Null THEN n ELSE pendingProgressUpdates
     IN /\ progressCalls' = n
        /\ pendingObjs' = [pendingObjs EXCEPT ![obj] = Merge(@, pr)]
        /\ pendingProgressUpdates' = obj
        /\ liveTimers' = (liveTimers \ {progressUpdateTimers}) \cup {n}
        /\ progressUpdateTimers' = n
        /\ windows' = IF progressCalls \in liveTimers THEN windows ELSE windows + 1
        /\ lastSet' = Merge(lastSet, pr)
  /\ UNCHANGED <<flushes, ticketBody, bodyWrites>>
  /\ UNCHANGED <<qvars, ovars, tvars, notU>>

\* 500 ms after it was set a timer fires (timers fire in the order they were
\* set): _flushProgressUpdate reads the pending object, returns if there is
\* none, and awaits getIssue
TimerFires(t) ==
  /\ t \in liveTimers
  /\ \A u \in liveTimers : t <= u
  /\ liveTimers' = liveTimers \ {t}
  /\ flushes' = IF pendingProgressUpdates = Null
                  THEN [flushes EXCEPT ![t].pc = "done"]
                  ELSE [flushes EXCEPT ![t].pc = "getIssue",
                                       ![t].pending = pendingProgressUpdates]
  /\ UNCHANGED <<pendingObjs, pendingProgressUpdates, progressUpdateTimers, ticketBody,
                 bodyWrites, progressCalls, windows, lastSet>>
  /\ UNCHANGED <<qvars, ovars, tvars, notU>>

\* getIssue resolves: the pending fields are applied to the body read and
\* updateIssue is awaited
GetIssueResolves(t) ==
  /\ flushes[t].pc = "getIssue"
  /\ flushes' = [flushes EXCEPT ![t].pc = "updateIssue",
                                ![t].body = Merge(ticketBody, pendingObjs[flushes[t].pending])]
  /\ UNCHANGED <<pendingObjs, pendingProgressUpdates, progressUpdateTimers, liveTimers,
                 ticketBody, bodyWrites, progressCalls, windows, lastSet>>
  /\ UNCHANGED <<qvars, ovars, tvars, notU>>

\* updateIssue resolves: the body is written, the entries of the two maps
\* are deleted
UpdateIssueResolves(t) ==
  /\ flushes[t].pc = "updateIssue"
  /\ ticketBody' = flushes[t].body
  /\ bodyWrites' = bodyWrites + 1
  /\ pendingProgressUpdates' = Null
  /\ progressUpdateTimers' = Null
  /\ flushes' = [flushes EXCEPT ![t].pc = "done"]
  /\ UNCHANGED <<pendingObjs, liveTimers, progressCalls, windows, lastSet>>
  /\ UNCHANGED <<qvars, ovars, tvars, notU>>

(***************************************************************************)
(* IssueBodyManager and the writers of the master ticket body              *)
(***************************************************************************)
\* A body is a sequence of parts [text |-> t, depth |-> d]: the text t with
\* "> " put d times before each of its lines, where t is one of
\*   "REQ"    the text the user wrote
\*   "START"  <!-- oc-ralph-orchestration-start -->
\*   "HEAD"   the orchestration heading
\*   "SPEC"   the specification section
\*   "SEP"    a --- separator
\*   "QHEAD"  the heading of the original-request blockquote
\*   "PLAN"   the plan section
\*   "TABLE"  a status table, which starts with ## Live Status Table
\*   "END"    <!-- oc-ralph-orchestration-end -->
Part(t) == [text |-> t, depth |-> 0]

Parts(ts) == [i \in 1..Len(ts) |-> Part(ts[i])]

\* lines.map(line => `> ${line}`)
Quote(part) == [part EXCEPT !.depth = @ + 1]

RECURSIVE QuoteAll(_)
QuoteAll(text) == IF text = <<>> THEN <<>> ELSE <<Quote(Head(text))>> \o QuoteAll(Tail(text))

\* the text of the part, quoted or not, contains the text named marker
PartIncludes(part, marker) == part.text = marker

\* body.indexOf(marker), counted in parts from 1; 0 - 1 when absent
IndexOf(body, marker) ==
  IF \E i \in 1..Len(body) : PartIncludes(body[i], marker)
    THEN CHOOSE i \in 1..Len(body) :
           /\ PartIncludes(body[i], marker)
           /\ \A j \in 1..(i - 1) : ~PartIncludes(body[j], marker)
    ELSE 0 - 1

\* body.substring(0, idx), idx an index of IndexOf
SubstringTo(body, idx) == IF idx < 1 THEN <<>> ELSE SubSeq(body, 1, idx - 1)

\* body.substring(idx), idx an index of IndexOf
SubstringFrom(body, idx) == IF idx < 1 THEN body ELSE SubSeq(body, idx, Len(body))

\* parse(issueBody).originalRequest
ParseOriginalRequest(body) ==
  IF IndexOf(body, "START") = 0 - 1 THEN body
  ELSE SubstringTo(body, IndexOf(body, "START"))

\* build(spec, plan, originalRequest, statusTable, planningStatus), for a
\* spec that is present and statusTable null
Build(hasPlan, request, hasPlanningStatus) ==
  Parts(<<"START", "HEAD", "SPEC">>)
    \o (IF request # <<>> THEN Parts(<<"SEP", "QHEAD">>) \o QuoteAll(request) ELSE <<>>)
    \o (IF hasPlan THEN Parts(<<"SEP", "PLAN">>) ELSE <<>>)
    \o (IF hasPlanningStatus THEN Parts(<<"SEP">>) ELSE <<>>)
    \o Parts(<<"END">>)

\* updateStatusTable(currentBody, newStatusTable)
UpdateStatusTable(currentBody) ==
  LET startIdx == IndexOf(currentBody, "TABLE")
      endIdx == IndexOf(currentBody, "END")
  IN IF startIdx = 0 - 1
       THEN IF endIdx = 0 - 1
              THEN currentBody \o Parts(<<"TABLE">>)
              ELSE SubstringTo(currentBody, endIdx) \o Parts(<<"TABLE">>)
                     \o SubstringFrom(currentBody, endIdx)
       ELSE SubstringTo(currentBody, startIdx) \o Parts(<<"TABLE">>)
              \o SubstringFrom(currentBody, endIdx)

MasterBodyFields ==
  /\ masterBody = Parts(<<"REQ">>)
  /\ originalRequest = <<>>
  /\ isUpdating = FALSE
  /\ newBody = <<>>
  /\ statusUpdates = 0
  /\ lastWrite = "none"

\* no orchestration is writing the body
MasterBodyIdle == MasterBodyFields /\ mpc = "idle"

\* start(id) has reached initializeStatusTable on a ticket whose body is the
\* user's request
InitMasterBody == MasterBodyFields /\ mpc = "start"

\* initializeStatusTable: statusUpdater.start sets masterIssueNumber, after
\* which the interval timer and the stages call updateStatusTable
InitializeStatusTable ==
  /\ mpc = "start"
  /\ mpc' = "architect-read"
  /\ UNCHANGED <<masterBody, originalRequest, isUpdating, newBody, statusUpdates, lastWrite>>
  /\ UNCHANGED <<qvars, ovars, tvars, notM>>

\* executeArchitect: getIssue, parse; the agent runs
ArchitectReads ==
  /\ mpc = "architect-read"
  /\ originalRequest' = ParseOriginalRequest(masterBody)
  /\ mpc' = "architect-write"
  /\ UNCHANGED <<masterBody, isUpdating, newBody, statusUpdates, lastWrite>>
  /\ UNCHANGED <<qvars, ovars, tvars, notM>>

\* updateMasterIssueAfterArchitect: build(spec, null, originalRequest ||
\* masterIssue.body, null, null), updateIssue
ArchitectWrites ==
  /\ mpc = "architect-write"
  /\ masterBody' = Build(FALSE, originalRequest, FALSE)
  /\ lastWrite' = "architect"
  /\ mpc' = "plan-read"
  /\ UNCHANGED <<originalRequest, isUpdating, newBody, statusUpdates>>
  /\ UNCHANGED <<qvars, ovars, tvars, notM>>

\* updateMasterIssueWithPlan: getIssue, parse
PlanReads ==
  /\ mpc = "plan-read"
  /\ originalRequest' = ParseOriginalRequest(masterBody)
  /\ mpc' = "plan-write"
  /\ UNCHANGED <<masterBody, isUpdating, newBody, statusUpdates, lastWrite>>
  /\ UNCHANGED <<qvars, ovars, tvars, notM>>

\* updateMasterIssueWithPlan: build(plan.spec, plan, originalRequest, null,
\* planningStatus), updateIssue
PlanWrites ==
  /\ mpc = "plan-write"
  /\ masterBody' = Build(TRUE, originalRequest, TRUE)
  /\ lastWrite' = "plan"
  /\ mpc' = "stages"
  /\ UNCHANGED <<originalRequest, isUpdating, newBody, statusUpdates>>
  /\ UNCHANGED <<qvars, ovars, tvars, notM>>

\* updateStatusTable(): guards, generate, getIssue, new body computed
StatusUpdateReads ==
  /\ mpc \notin {"idle", "start"}
  /\ ~isUpdating
  /\ statusUpdates < MaxStatusUpdates
  /\ isUpdating' = TRUE
  /\ newBody' = UpdateStatusTable(masterBody)
  /\ UNCHANGED <<masterBody, mpc, originalRequest, statusUpdates, lastWrite>>
  /\ UNCHANGED <<qvars, ovars, tvars, notM>>

\* updateStatusTable(): updateIssue resolves, finally
StatusUpdateWrites ==
  /\ isUpdating
  /\ masterBody' = newBody
  /\ lastWrite' = "status"
  /\ statusUpdates' = statusUpdates + 1
  /\ isUpdating' = FALSE
  /\ UNCHANGED <<mpc, originalRequest, newBody>>
  /\ UNCHANGED <<qvars, ovars, tvars, notM>>

(***************************************************************************)
(* StateManager.transitionTo, call by call                                 *)
(***************************************************************************)
\* the labels getCurrentState recognises as state labels
StateLabelSet == {stateLabels[i] : i \in 1..Len(stateLabels)}
\* labels of another kind that a ticket carries
OtherLabels == {"orchestrate", "worktree"}
StateLabelsOf(ls) == ls \cap StateLabelSet

\* LabelOperations.removeLabel and addLabel, once gh has run
RemoveLabelKeeps(ls, label) == ls
RemoveLabel(ls, label) == ls \ {label}
AddLabel(ls, label) == ls \cup {label}

TransitionFields ==
  /\ spc = "idle"
  /\ currentState = "null"
  /\ newState = "null"
  /\ transitions = 0

TransitionIdle == TransitionFields /\ ticketLabels = {}

\* a ticket with at most one state label, no transitionTo call issued yet
InitTransitions ==
  /\ TransitionFields
  /\ ticketLabels \in {ls \in SUBSET (StateLabelSet \cup OtherLabels) :
                         Cardinality(StateLabelsOf(ls)) <= 1}

\* transitionTo(issueNumber, new) is called once the previous call has settled
TransitionToCalled(new) ==
  /\ spc \in {"idle", "returned", "threw"}
  /\ transitions < MaxTransitions
  /\ transitions' = transitions + 1
  /\ newState' = new
  /\ currentState' = "null"
  /\ spc' = "getCurrentState"
  /\ UNCHANGED ticketLabels
  /\ UNCHANGED <<qvars, ovars, tvars, notS>>

\* getCurrentState resolves; if (currentState) chooses the next await
GetCurrentStateResolves ==
  /\ spc = "getCurrentState"
  /\ currentState' = GetCurrentState(ticketLabels)
  /\ spc' = IF currentState' # "null" THEN "removeLabel" ELSE "addLabel"
  /\ UNCHANGED <<ticketLabels, newState, transitions>>
  /\ UNCHANGED <<qvars, ovars, tvars, notS>>

\* getLabels rejects: transitionTo throws before touching the ticket
GetCurrentStateRejects ==
  /\ spc = "getCurrentState"
  /\ spc' = "threw"
  /\ UNCHANGED <<ticketLabels, currentState, newState, transitions>>
  /\ UNCHANGED <<qvars, ovars, tvars, notS>>

\* removeLabel(currentState) resolves
RemoveCurrentResolves ==
  /\ spc = "removeLabel"
  /\ ticketLabels' = RemoveLabel(ticketLabels, currentState)
  /\ spc' = "addLabel"
  /\ UNCHANGED <<currentState, newState, transitions>>
  /\ UNCHANGED <<qvars, ovars, tvars, notS>>

\* removeLabel rejects: transitionTo throws, the new label is not added
RemoveCurrentRejects ==
  /\ spc = "removeLabel"
  /\ spc' = "threw"
  /\ UNCHANGED <<ticketLabels, currentState, newState, transitions>>
  /\ UNCHANGED <<qvars, ovars, tvars, notS>>

\* addLabel(newState) resolves and transitionTo returns
AddNewResolves ==
  /\ spc = "addLabel"
  /\ ticketLabels' = AddLabel(ticketLabels, newState)
  /\ spc' = "returned"
  /\ UNCHANGED <<currentState, newState, transitions>>
  /\ UNCHANGED <<qvars, ovars, tvars, notS>>

\* addLabel rejects: transitionTo throws
AddNewRejects ==
  /\ spc = "addLabel"
  /\ spc' = "threw"
  /\ UNCHANGED <<ticketLabels, currentState, newState, transitions>>
  /\ UNCHANGED <<qvars, ovars, tvars, notS>>

(***************************************************************************)
(* Orchestrator.resume                                                     *)
(***************************************************************************)
\* the role labels a ticket with the sub-issue label can carry
Roles == {"implementation", "test", "both", "neither"}
SubIssueLists == UNION {[1..n -> Roles] : n \in 0..MaxSubIssues}
\* the states canResume accepts
ResumableStates == {"planning", "awaiting-approval", "approved", "implementing",
                    "testing", "completing"}
TerminalStates == {"completed", "pr-created", "failed", "rejected"}

NoPlan == [origin |-> "none", implementationTasks |-> <<>>, testTasks |-> <<>>]
\* the plan start() left in this.currentPlan
PlanInMemory == [origin |-> "memory", implementationTasks |-> <<>>, testTasks |-> <<>>]
NoResult == [success |-> FALSE, status |-> "none"]

RECURSIVE TasksOf(_, _, _)
\* the loop of loadPlanFromSubIssues: tasks of the issues from i on that the
\* branch for the wanted list takes, each with dependencies: []
TasksOf(issues, i, wanted) ==
  IF i > Len(issues) THEN <<>>
  ELSE LET isImpl == issues[i] \in {"implementation", "both"}
           isTest == issues[i] \in {"test", "both"}
           taken == IF wanted = "implementation" THEN isImpl ELSE ~isImpl /\ isTest
           task == [issueNumber |-> i, dependencies |-> {}]
       IN (IF taken THEN <<task>> ELSE <<>>) \o TasksOf(issues, i + 1, wanted)

LoadPlanFromSubIssues(issues) ==
  [origin |-> "sub-issues",
   implementationTasks |-> TasksOf(issues, 1, "implementation"),
   testTasks |-> TasksOf(issues, 1, "test")]

ResumeFields ==
  /\ epc = "idle"
  /\ resumedFrom = "null"
  /\ resumeEntered = {}
  /\ resumeResult = NoResult

ResumeIdle ==
  /\ ResumeFields
  /\ rlabels = {}
  /\ subIssues = <<>>
  /\ currentPlan = NoPlan

\* a ticket in a state canResume accepts, before resume(id) is called
InitResume ==
  /\ ResumeFields
  /\ rlabels \in {{st} : st \in ResumableStates}
  /\ subIssues \in SubIssueLists
  /\ currentPlan \in {NoPlan, PlanInMemory}

\* resume(id): getCurrentState resolves, try entered, if (!this.currentPlan)
ResumeCalled ==
  /\ epc = "idle"
  /\ resumedFrom' = GetCurrentState(rlabels)
  /\ epc' = IF currentPlan.origin = "none" THEN "loadPlan" ELSE "dispatch"
  /\ UNCHANGED <<rlabels, subIssues, currentPlan, resumeEntered, resumeResult>>
  /\ UNCHANGED <<qvars, ovars, tvars, notE>>

\* resume(id): getCurrentState rejects
ResumeCalledRejects ==
  /\ epc = "idle"
  /\ epc' = "threw"
  /\ UNCHANGED <<rlabels, subIssues, currentPlan, resumedFrom, resumeEntered, resumeResult>>
  /\ UNCHANGED <<qvars, ovars, tvars, notE>>

\* loadPlanFromSubIssues resolves
LoadPlanResolves ==
  /\ epc = "loadPlan"
  /\ currentPlan' = LoadPlanFromSubIssues(subIssues)
  /\ epc' = "dispatch"
  /\ UNCHANGED <<rlabels, subIssues, resumedFrom, resumeEntered, resumeResult>>
  /\ UNCHANGED <<qvars, ovars, tvars, notE>>

\* loadPlanFromSubIssues rejects: catch, rethrow
LoadPlanRejects ==
  /\ epc = "loadPlan"
  /\ epc' = "threw"
  /\ UNCHANGED <<rlabels, subIssues, currentPlan, resumedFrom, resumeEntered, resumeResult>>
  /\ UNCHANGED <<qvars, ovars, tvars, notE>>

\* if (currentState === 'oc-ralph:awaiting-approval') ... else return the status
ResumeDispatch ==
  /\ epc = "dispatch"
  /\ IF resumedFrom = "awaiting-approval"
       THEN /\ epc' = "approval"
            /\ resumeEntered' = resumeEntered \cup {"awaiting-approval"}
            /\ UNCHANGED resumeResult
       ELSE /\ epc' = "returned"
            /\ UNCHANGED resumeEntered
            /\ resumeResult' = [success |-> TRUE, status |-> resumedFrom]
  /\ UNCHANGED <<rlabels, subIssues, currentPlan, resumedFrom>>
  /\ UNCHANGED <<qvars, ovars, tvars, notE>>

\* waitForApprovalAndContinue: approved, the three stages run to the end
ApprovalContinues ==
  /\ epc = "approval"
  /\ resumeEntered' = resumeEntered \cup {"implementing", "testing", "completing"}
  /\ \E ok \in BOOLEAN :
       IF ok
         THEN /\ rlabels' = TransitionTo(rlabels, "completed")
              /\ epc' = "returned"
              /\ resumeResult' = [success |-> TRUE, status |-> "approved"]
         ELSE /\ rlabels' = TransitionTo(rlabels, "failed")
              /\ epc' = "threw"
              /\ UNCHANGED resumeResult
  /\ UNCHANGED <<subIssues, currentPlan, resumedFrom>>
  /\ UNCHANGED <<qvars, ovars, tvars, notE>>

\* waitForApprovalAndContinue: rejected, cleanup
ApprovalRejects ==
  /\ epc = "approval"
  /\ rlabels' = TransitionTo(rlabels, "rejected")
  /\ epc' = "returned"
  /\ resumeResult' = [success |-> FALSE, status |-> "rejected"]
  /\ UNCHANGED <<subIssues, currentPlan, resumedFrom, resumeEntered>>
  /\ UNCHANGED <<qvars, ovars, tvars, notE>>

(***************************************************************************)
(* PlanningStage.execute, step by step                                     *)
(***************************************************************************)
\* the lengths of the arrays an agent's response can parse to
TaskCounts == 0..MaxPlanTasks

PlanningFields ==
  /\ sculptor = "idle"
  /\ sentinel = "idle"
  /\ implTaskCount = 0
  /\ testTaskCount = 0
  /\ implIssuesCreated = 0
  /\ testIssuesCreated = 0
  /\ planEvents = <<>>
  /\ createdAtComplete = 0

PlanningIdle == PlanningFields /\ ppc = "idle"
\* start has called planningStage.execute; executeArchitect is awaited
InitPlanning == PlanningFields /\ ppc = "architect"

PlanningUnchanged(changed) ==
  /\ "sculptor" \in changed \/ UNCHANGED sculptor
  /\ "sentinel" \in changed \/ UNCHANGED sentinel
  /\ "implTaskCount" \in changed \/ UNCHANGED implTaskCount
  /\ "testTaskCount" \in changed \/ UNCHANGED testTaskCount
  /\ "implIssuesCreated" \in changed \/ UNCHANGED implIssuesCreated
  /\ "testIssuesCreated" \in changed \/ UNCHANGED testIssuesCreated
  /\ "planEvents" \in changed \/ UNCHANGED planEvents
  /\ "createdAtComplete" \in changed \/ UNCHANGED createdAtComplete
  /\ UNCHANGED <<qvars, ovars, tvars, notG>>

\* executeArchitect and markSubState resolve; Promise.all starts both agents
ArchitectReturns ==
  /\ ppc = "architect"
  /\ ppc' = "parallel"
  /\ sculptor' = "running"
  /\ sentinel' = "running"
  /\ PlanningUnchanged({"sculptor", "sentinel"})

\* executeArchitect rejects: execute throws
ArchitectThrows ==
  /\ ppc = "architect"
  /\ ppc' = "threw"
  /\ PlanningUnchanged({})

\* validateTasks / validateTestTasks: an empty array is refused
ValidateTasks(n) == n > 0

\* executeSculptor settles: the parsed tasks pass validateTasks, or it throws
SculptorSettles(n) ==
  /\ ppc \in {"parallel", "threw"}
  /\ sculptor = "running"
  /\ IF ValidateTasks(n)
       THEN sculptor' = "done" /\ implTaskCount' = n
       ELSE sculptor' = "threw" /\ UNCHANGED implTaskCount
  /\ ppc' = IF ppc = "parallel" /\ sculptor' = "threw" THEN "threw" ELSE ppc
  /\ PlanningUnchanged({"sculptor", "implTaskCount"})

\* executeSentinel settles
SentinelSettles(n) ==
  /\ ppc \in {"parallel", "threw"}
  /\ sentinel = "running"
  /\ IF ValidateTasks(n)
       THEN sentinel' = "done" /\ testTaskCount' = n
       ELSE sentinel' = "threw" /\ UNCHANGED testTaskCount
  /\ ppc' = IF ppc = "parallel" /\ sentinel' = "threw" THEN "threw" ELSE ppc
  /\ PlanningUnchanged({"sentinel", "testTaskCount"})

\* Promise.all resolved: onEvent('planning-complete'), markSubState
EmitPlanningComplete ==
  /\ ppc = "parallel"
  /\ sculptor = "done"
  /\ sentinel = "done"
  /\ planEvents' = Append(planEvents, "planning-complete")
  /\ createdAtComplete' = implIssuesCreated + testIssuesCreated
  /\ ppc' = "createImplementationIssues"
  /\ PlanningUnchanged({"planEvents", "createdAtComplete"})

\* createImplementationIssues: one createImplementationIssue resolves, or the
\* loop is over and createTestIssues is called
CreateImplementationIssue ==
  /\ ppc = "createImplementationIssues"
  /\ IF implIssuesCreated < implTaskCount
       THEN implIssuesCreated' = implIssuesCreated + 1 /\ UNCHANGED ppc
       ELSE ppc' = "createTestIssues" /\ UNCHANGED implIssuesCreated
  /\ PlanningUnchanged({"implIssuesCreated"})

\* createTestIssues: one createTestIssue resolves, or the loop is over and
\* execute returns the plan
CreateTestIssue ==
  /\ ppc = "createTestIssues"
  /\ IF testIssuesCreated < testTaskCount
       THEN testIssuesCreated' = testIssuesCreated + 1 /\ UNCHANGED ppc
       ELSE ppc' = "returned" /\ UNCHANGED testIssuesCreated
  /\ PlanningUnchanged({"testIssuesCreated"})

\* a createImplementationIssue / createTestIssue call rejects: execute throws
CreateIssueRejects ==
  /\ \/ ppc = "createImplementationIssues" /\ implIssuesCreated < implTaskCount
     \/ ppc = "createTestIssues" /\ testIssuesCreated < testTaskCount
  /\ ppc' = "threw"
  /\ PlanningUnchanged({})

\* start: updateMasterIssueWithPlan, transitionTo(awaiting-approval), event
PlanAwaitsApproval ==
  /\ ppc = "returned"
  /\ planEvents' = Append(planEvents, "awaiting-approval")
  /\ ppc' = "awaiting-approval"
  /\ PlanningUnchanged({"planEvents"})

\* start (catch): orchestration-failed, transitionTo(failed)
PlanningFailed ==
  /\ ppc = "threw"
  /\ planEvents' = Append(planEvents, "orchestration-failed")
  /\ ppc' = "failed"
  /\ PlanningUnchanged({"planEvents"})

(***************************************************************************)
(* LogStreamManager                                                        *)
(***************************************************************************)
Sockets == 1..NumSockets

\* Array.shift and, for comparison, Array.pop
Pop(buf) == SubSeq(buf, 1, Len(buf) - 1)
Shift(buf) == Tail(buf)

\* onLog: push, then shift while the buffer is over maxSize
PushToBuffer(buf, entry, size) ==
  LET pushed == Append(buf, entry)
  IN IF Len(pushed) > size THEN Shift(pushed) ELSE pushed

\* the frames subscribe and broadcast send
InitFrame(buf) == [type |-> "init", logs |-> buf]
LogFrame(entry) == [type |-> "log", logs |-> <<entry>>]

\* subscribe: this.subscribers.add(ws)
SubscribeForgets(subs, ws) == subs
SubscribeAdd(subs, ws) == subs \cup {ws}

\* broadcast: the subscribers whose readyState is not OPEN
DeadClients(subs, rs) == {ws \in subs : rs[ws] # "open"}

LogStreamFields ==
  /\ buffer = <<>>
  /\ subscribers = {}
  /\ readyState = [ws \in Sockets |-> "fresh"]
  /\ closeHandled = [ws \in Sockets |-> FALSE]
  /\ frames = [ws \in Sockets |-> <<>>]
  /\ published = 0
  /\ subscribedAt = [ws \in Sockets |-> 0]

LogStreamIdle == LogStreamFields /\ maxSize = 1
InitLogStream == LogStreamFields /\ maxSize \in 0..MaxBufferSize

\* onLog(logEntry) with a log entry object: buffer, then broadcast
OnLog ==
  /\ published < MaxPublishes
  /\ published' = published + 1
  /\ buffer' = PushToBuffer(buffer, published', maxSize)
  /\ frames' = [ws \in Sockets |->
                  IF ws \in subscribers /\ readyState[ws] = "open"
                    THEN Append(frames[ws], LogFrame(published'))
                    ELSE frames[ws]]
  /\ subscribers' = subscribers \ DeadClients(subscribers, readyState)
  /\ UNCHANGED <<maxSize, readyState, closeHandled, subscribedAt>>
  /\ UNCHANGED <<qvars, ovars, tvars, notL>>

\* WebServer.handleConnection: a client has connected; subscribe(ws)
HandleConnection(ws) ==
  /\ readyState[ws] = "fresh"
  /\ readyState' = [readyState EXCEPT ![ws] = "open"]
  /\ subscribers' = SubscribeAdd(subscribers, ws)
  /\ frames' = [frames EXCEPT ![ws] = Append(@, InitFrame(buffer))]
  /\ subscribedAt' = [subscribedAt EXCEPT ![ws] = published]
  /\ UNCHANGED <<buffer, maxSize, closeHandled, published>>
  /\ UNCHANGED <<qvars, ovars, tvars, notL>>

\* the connection of a socket goes down
SocketCloses(ws) ==
  /\ readyState[ws] = "open"
  /\ readyState' = [readyState EXCEPT ![ws] = "closed"]
  /\ UNCHANGED <<buffer, maxSize, subscribers, closeHandled, frames, published,
                 subscribedAt>>
  /\ UNCHANGED <<qvars, ovars, tvars, notL>>

\* ws.on('close'): unsubscribe(ws)
CloseHandler(ws) ==
  /\ readyState[ws] = "closed"
  /\ ~closeHandled[ws]
  /\ closeHandled' = [closeHandled EXCEPT ![ws] = TRUE]
  /\ subscribers' = subscribers \ {ws}
  /\ UNCHANGED <<buffer, maxSize, readyState, frames, published, subscribedAt>>
  /\ UNCHANGED <<qvars, ovars, tvars, notL>>

(***************************************************************************)
(* ServiceCommand: shutdown handler                                        *)
(***************************************************************************)
\* the service after 'Service started successfully', no signal received
ServiceRunning ==
  /\ proc = "running"
  /\ pollerActive = TRUE
  /\ webActive = TRUE
  /\ exitCode = "none"

\* SIGTERM or SIGINT: poller.stop(), queue.getStatus() (a running
\* orchestration is only logged), webServer.stop() called and awaited
ShutdownBegins ==
  /\ proc = "running"
  /\ proc' = "stopping"
  /\ pollerActive' = FALSE
  /\ UNCHANGED <<webActive, exitCode>>
  /\ UNCHANGED <<qvars, ovars, tvars, notH>>

\* server.close calls back without error: process.exit(0)
WebServerStopResolves ==
  /\ proc = "stopping"
  /\ webActive' = FALSE
  /\ exitCode' = "0"
  /\ proc' = "exited"
  /\ UNCHANGED pollerActive
  /\ UNCHANGED <<qvars, ovars, tvars, notH>>

\* server.close calls back with an error: catch, process.exit(1)
WebServerStopRejects ==
  /\ proc = "stopping"
  /\ exitCode' = "1"
  /\ proc' = "exited"
  /\ UNCHANGED <<pollerActive, webActive>>
  /\ UNCHANGED <<qvars, ovars, tvars, notH>>

(***************************************************************************)
(* StatusUpdater._flushProgressUpdate: tracker calls that reject           *)
(***************************************************************************)
\* getIssue rejects: catch, the error is logged; the pending entry and the
\* timer entry stay in their maps and no timer is set
GetIssueRejects(t) ==
  /\ flushes[t].pc = "getIssue"
  /\ flushes' = [flushes EXCEPT ![t].pc = "done"]
  /\ UNCHANGED <<pendingObjs, pendingProgressUpdates, progressUpdateTimers, liveTimers,
                 ticketBody, bodyWrites, progressCalls, windows, lastSet>>
  /\ UNCHANGED <<qvars, ovars, tvars, notU>>

\* updateIssue rejects: catch, the error is logged
UpdateIssueRejects(t) ==
  /\ flushes[t].pc = "updateIssue"
  /\ flushes' = [flushes EXCEPT ![t].pc = "done"]
  /\ UNCHANGED <<pendingObjs, pendingProgressUpdates, progressUpdateTimers, liveTimers,
                 ticketBody, bodyWrites, progressCalls, windows, lastSet>>
  /\ UNCHANGED <<qvars, ovars, tvars, notU>>

(***************************************************************************)
(* TestingStage.executeTestsInBatches                                      *)
(***************************************************************************)
\* the tests of the current batch whose promise has not settled
RunningTests == {i \in BatchIdx : bstat[i] = "running"}

\* the loop is at its first batch
TestBatchesIdle == batchNo = 1 /\ leftRunning = 0

\* await executeBatch(...) has returned and the for loop calls executeBatch
\* for the next batch
NextBatchStarts ==
  /\ bpc = "done"
  /\ batchNo < NumBatches
  /\ batchNo' = batchNo + 1
  /\ leftRunning' = leftRunning + Cardinality(RunningTests)
  /\ batchLen' \in 1..MaxBatch
  /\ bstat' = [i \in BatchIdx |-> "new"]
  /\ executing' = <<>>
  /\ bnext' = 1
  /\ bpc' = "loop"
  /\ UNCHANGED <<mcCfg, cpus>>
  /\ UNCHANGED <<qvars, ovars, tvars, ivars, pvars, fvars, rvars, dvars, uvars, mvars,
                 svars, evars, wvars, gvars, lvars, hvars, zvars>>

(***************************************************************************)
(* ImplementationStage.executeBatch: concurrent executes of one role       *)
(***************************************************************************)
BatchTasks == 1..NumBatchTasks

\* the role every executeTask of a batch runs: agentExecutor.execute('craftsman')
Craftsman == 1

\* no executeTask of the batch has called execute yet
BatchTasksIdle ==
  /\ taskPc = [k \in BatchTasks |-> "idle"]
  /\ currentModel = [k \in BatchTasks |-> "none"]
  /\ taskFailoverAttempts = [k \in BatchTasks |-> 0]
  /\ timedOutModel = [k \in BatchTasks |-> "none"]
  /\ newModel = [k \in BatchTasks |-> "none"]

notFZ == <<bvars, ivars, pvars, rvars, dvars, uvars, mvars, svars, evars, wvars,
           gvars, lvars, hvars, yvars>>

\* the fields of the failover manager and of the single execute that the
\* concurrent tasks leave alone
BatchTasksUnchanged ==
  /\ UNCHANGED <<enabled, failbackModels, maxFailoversPerAgent, xpc, xagent, xmodel,
                 failoverAttempts, submissions, executions, xresult>>
  /\ UNCHANGED <<qvars, ovars, tvars, notFZ>>

\* executeTask(k): execute('craftsman', ...) is called, the first executeFn()
\* reads the current model of the role and submits the prompt
TaskExecuteStart(k) ==
  /\ taskPc[k] = "idle"
  /\ currentModel' = [currentModel EXCEPT ![k] = GetCurrentModel(Craftsman, currentModels)]
  /\ currentModels' = GetCurrentModelSets(Craftsman, currentModels)
  /\ taskPc' = [taskPc EXCEPT ![k] = "submitted"]
  /\ UNCHANGED <<failoverCounts, lastTimeout, taskFailoverAttempts, timedOutModel, newModel>>
  /\ BatchTasksUnchanged

\* client.execute of task k resolves: reportEvent('agent-completed') resets
\* the failover state of the role, execute returns
TaskClientResolves(k) ==
  /\ taskPc[k] = "submitted"
  /\ ResetAgent(Craftsman)
  /\ taskPc' = [taskPc EXCEPT ![k] = "returned"]
  /\ UNCHANGED <<lastTimeout, currentModel, taskFailoverAttempts, timedOutModel, newModel>>
  /\ BatchTasksUnchanged

\* client.execute of task k rejects with a timeout: reportEvent('model-timeout')
\* runs handleModelTimeout and then awaits the notification, the ticket update
\* and the Discord message before executeFn rethrows
TaskClientTimesOut(k) ==
  /\ taskPc[k] = "submitted"
  /\ timedOutModel' = [timedOutModel EXCEPT ![k] = currentModel[k]]
  /\ newModel' = [newModel EXCEPT ![k] = HandleModelTimeoutReturns(Craftsman)]
  /\ HandleModelTimeout(Craftsman, FALSE)
  /\ taskPc' = [taskPc EXCEPT ![k] = "reported"]
  /\ UNCHANGED <<currentModel, taskFailoverAttempts>>
  /\ BatchTasksUnchanged

\* the failover loop of task k after the rethrown timeout: it calls executeFn
\* again, which reads the current model of the role, or rethrows at the last
\* attempt
TaskRetryOrThrow(k) ==
  /\ taskPc[k] = "reported"
  /\ IF taskFailoverAttempts[k] < maxFailoverAttempts - 1
       THEN /\ taskFailoverAttempts' = [taskFailoverAttempts EXCEPT ![k] = @ + 1]
            /\ currentModel' = [currentModel EXCEPT ![k] = GetCurrentModel(Craftsman, currentModels)]
            /\ currentModels' = GetCurrentModelSets(Craftsman, currentModels)
            /\ taskPc' = [taskPc EXCEPT ![k] = "submitted"]
       ELSE /\ taskPc' = [taskPc EXCEPT ![k] = "threw"]
            /\ UNCHANGED <<taskFailoverAttempts, currentModel, currentModels>>
  /\ UNCHANGED <<failoverCounts, lastTimeout, timedOutModel, newModel>>
  /\ BatchTasksUnchanged

\* client.execute of task k rejects with another error: execute rethrows it
TaskClientFails(k) ==
  /\ taskPc[k] = "submitted"
  /\ taskPc' = [taskPc EXCEPT ![k] = "threw"]
  /\ UNCHANGED <<currentModels, failoverCounts, lastTimeout, currentModel,
                 taskFailoverAttempts, timedOutModel, newModel>>
  /\ BatchTasksUnchanged

(***************************************************************************)
(* Specifications                                                          *)
(***************************************************************************)
\* no orchestration of this model is running (the queue is studied alone)
OrchIdle == InitOrchFields /\ autoApprove = FALSE

InitQ == InitQueue /\ OrchIdle /\ TestingIdle /\ BatchIdle /\ ImplIdle /\ PollerIdle /\ FailoverIdle /\ RetryIdle /\ ResolverIdle /\ InitProgress /\ MasterBodyIdle /\ TransitionIdle /\ ResumeIdle /\ WorktreeIdle /\ PlanningIdle /\ LogStreamIdle /\ ServiceRunning /\ TestBatchesIdle /\ BatchTasksIdle

NextQueue ==
  \/ \E i \in Issues : Enqueue(i)
  \/ ProcessQueueImmediate
  \/ ProcessQueueCall
  \/ \E l \in LoopIds : FactoryResolves(l)
  \/ \E l \in LoopIds : FactoryThrows(l)
  \/ \E l \in LoopIds : StartReturns(l)
  \/ \E l \in LoopIds : StartThrows(l)
  \/ \E i \in Issues : Remove(i)
  \/ Clear

SpecQueue == InitQ /\ [][NextQueue]_vars

\* the event loop runs every pending setImmediate callback, and every
\* awaited orchestratorFactory() and start(id) call settles
SpecQueueLive ==
  /\ InitQ
  /\ [][NextQueue]_vars
  /\ WF_vars(ProcessQueueImmediate)
  /\ WF_vars(\E l \in LoopIds : FactoryResolves(l) \/ FactoryThrows(l))
  /\ WF_vars(\E l \in LoopIds : StartReturns(l) \/ StartThrows(l))

InitO ==
  /\ InitQueue /\ InitOrchFields /\ autoApprove \in BOOLEAN /\ InitTesting
  /\ BatchIdle /\ ImplIdle /\ PollerIdle /\ FailoverIdle /\ RetryIdle /\ ResolverIdle /\ InitProgress /\ MasterBodyIdle /\ TransitionIdle /\ ResumeIdle /\ InitWorktree /\ PlanningIdle /\ LogStreamIdle /\ ServiceRunning /\ TestBatchesIdle /\ BatchTasksIdle

NextOrch ==
  \/ StartBegin
  \/ PlanningStageReturns
  \/ PlanningStageThrows
  \/ StartAwaitApproval
  \/ WaitForApprovalBegin
  \/ \E d \in {"approved", "rejected"} : UserDecides(d)
  \/ MonitorPoll
  \/ Cleanup
  \/ RunImplementation
  \/ ImplementationStageSettles
  \/ RunImplementationCatch
  \/ StartCatch
  \/ RunTesting
  \/ GetTestSubIssues
  \/ \E t \in Tests : ExecuteTest(t)
  \/ IdentifyFailedTests
  \/ CoordinateTestFixBegin
  \/ FixAttempt
  \/ FixFailedTestsDone
  \/ AggregateResults
  \/ RunTestingCatch
  \/ RunCompletion
  \/ CompletionStageReturns
  \/ CompletionStageThrows
  \/ RunCompletionFinish
  \/ RunCompletionCatch
  \/ StatusIntervalFires

SpecOrch == InitO /\ [][NextOrch]_vars

InitB == InitQueue /\ OrchIdle /\ TestingIdle /\ InitBatch /\ ImplIdle /\ PollerIdle /\ FailoverIdle /\ RetryIdle /\ ResolverIdle /\ InitProgress /\ MasterBodyIdle /\ TransitionIdle /\ ResumeIdle /\ WorktreeIdle /\ PlanningIdle /\ LogStreamIdle /\ ServiceRunning /\ TestBatchesIdle /\ BatchTasksIdle

NextBatch ==
  \/ BatchLaunch
  \/ \E i \in BatchIdx : TestSettles(i)
  \/ RaceResumes
  \/ BatchAwaitRemaining
  \/ BatchReturns

SpecBatch == InitB /\ [][NextBatch]_vars

InitI == InitQueue /\ OrchIdle /\ TestingIdle /\ BatchIdle /\ InitImpl /\ PollerIdle /\ FailoverIdle /\ RetryIdle /\ ResolverIdle /\ InitProgress /\ MasterBodyIdle /\ TransitionIdle /\ ResumeIdle /\ WorktreeIdle /\ PlanningIdle /\ LogStreamIdle /\ ServiceRunning /\ TestBatchesIdle /\ BatchTasksIdle

NextImpl ==
  \/ ImplResolve
  \/ ImplBatchLaunch
  \/ \E t \in Tasks : \E ok \in BOOLEAN : TaskSettles(t, ok)
  \/ ImplBatchSettled

SpecImpl == InitI /\ [][NextImpl]_vars

\* the poller feeds the queue; every tracker call of the poller may fail, the
\* orchestrations the queue starts run to their end
InitP == InitQueue /\ OrchIdle /\ TestingIdle /\ BatchIdle /\ ImplIdle /\ InitPoller /\ FailoverIdle /\ RetryIdle /\ ResolverIdle /\ InitProgress /\ MasterBodyIdle /\ TransitionIdle /\ ResumeIdle /\ WorktreeIdle /\ PlanningIdle /\ LogStreamIdle /\ ServiceRunning /\ TestBatchesIdle /\ BatchTasksIdle

NextPoller ==
  \/ PollInvoke
  \/ \E k \in PollIds : QueryResolves(k)
  \/ \E k \in PollIds : QueryRejects(k)
  \/ \E k \in PollIds : RemoveLabelResolves(k)
  \/ \E k \in PollIds : RemoveLabelRejects(k)
  \/ \E k \in PollIds : AddLabelsResolves(k)
  \/ \E k \in PollIds : AddLabelsRejects(k)
  \/ \E i \in Issues : UserLabels(i)
  \/ ProcessQueueImmediate
  \/ \E l \in LoopIds : FactoryResolves(l)
  \/ \E l \in LoopIds : StartReturns(l)

SpecPoller == InitP /\ [][NextPoller]_vars

InitF == InitQueue /\ OrchIdle /\ TestingIdle /\ BatchIdle /\ ImplIdle /\ PollerIdle
           /\ InitFailover /\ RetryIdle /\ ResolverIdle /\ InitProgress /\ MasterBodyIdle /\ TransitionIdle /\ ResumeIdle /\ WorktreeIdle /\ PlanningIdle /\ LogStreamIdle /\ ServiceRunning /\ TestBatchesIdle /\ BatchTasksIdle

NextFailover ==
  \/ \E a \in Agents : ExecuteStart(a)
  \/ ClientResolves
  \/ ClientTimesOut
  \/ ClientFails

SpecFailover == InitF /\ [][NextFailover]_vars

InitR == InitQueue /\ OrchIdle /\ TestingIdle /\ BatchIdle /\ ImplIdle /\ PollerIdle
           /\ FailoverIdle /\ InitRetry /\ ResolverIdle /\ InitProgress /\ MasterBodyIdle /\ TransitionIdle /\ ResumeIdle /\ WorktreeIdle /\ PlanningIdle /\ LogStreamIdle /\ ServiceRunning /\ TestBatchesIdle /\ BatchTasksIdle

NextRetry ==
  \/ \E v \in Values : FnResolves(v)
  \/ \E err \in Errors : FnRejects(err)
  \/ SleepEnds

SpecRetry == InitR /\ [][NextRetry]_vars

InitD == InitQueue /\ OrchIdle /\ TestingIdle /\ BatchIdle /\ ImplIdle /\ PollerIdle
           /\ FailoverIdle /\ RetryIdle /\ InitResolver /\ InitProgress /\ MasterBodyIdle /\ TransitionIdle /\ ResumeIdle /\ WorktreeIdle /\ PlanningIdle /\ LogStreamIdle /\ ServiceRunning /\ TestBatchesIdle /\ BatchTasksIdle

NextResolver == Resolve

SpecResolver == InitD /\ [][NextResolver]_vars

\* the tracker calls of the flush succeed
InitU == InitQueue /\ OrchIdle /\ TestingIdle /\ BatchIdle /\ ImplIdle /\ PollerIdle
           /\ FailoverIdle /\ RetryIdle /\ ResolverIdle /\ InitProgress /\ MasterBodyIdle /\ TransitionIdle /\ ResumeIdle /\ WorktreeIdle /\ PlanningIdle /\ LogStreamIdle /\ ServiceRunning /\ TestBatchesIdle /\ BatchTasksIdle

NextProgress ==
  \/ \E pr \in Progresses : UpdateTaskProgress(pr)
  \/ \E t \in TimerIds : TimerFires(t)
  \/ \E t \in TimerIds : GetIssueResolves(t)
  \/ \E t \in TimerIds : UpdateIssueResolves(t)

SpecProgress == InitU /\ [][NextProgress]_vars

InitM == InitQueue /\ OrchIdle /\ TestingIdle /\ BatchIdle /\ ImplIdle /\ PollerIdle
           /\ FailoverIdle /\ RetryIdle /\ ResolverIdle /\ InitProgress /\ InitMasterBody /\ TransitionIdle /\ ResumeIdle /\ WorktreeIdle /\ PlanningIdle /\ LogStreamIdle /\ ServiceRunning /\ TestBatchesIdle /\ BatchTasksIdle

NextMasterBody ==
  \/ InitializeStatusTable
  \/ ArchitectReads
  \/ ArchitectWrites
  \/ PlanReads
  \/ PlanWrites
  \/ StatusUpdateReads
  \/ StatusUpdateWrites

SpecMasterBody == InitM /\ [][NextMasterBody]_vars

\* ---- StateManager.transitionTo calls issued one after another
InitS == InitQueue /\ OrchIdle /\ TestingIdle /\ BatchIdle /\ ImplIdle /\ PollerIdle
           /\ FailoverIdle /\ RetryIdle /\ ResolverIdle /\ InitProgress /\ MasterBodyIdle
           /\ InitTransitions /\ ResumeIdle /\ WorktreeIdle /\ PlanningIdle /\ LogStreamIdle /\ ServiceRunning /\ TestBatchesIdle /\ BatchTasksIdle

NextTransitions ==
  \/ \E new \in StateLabelSet : TransitionToCalled(new)
  \/ GetCurrentStateResolves
  \/ GetCurrentStateRejects
  \/ RemoveCurrentResolves
  \/ RemoveCurrentRejects
  \/ AddNewResolves
  \/ AddNewRejects

SpecTransitions == InitS /\ [][NextTransitions]_vars

\* ---- Orchestrator.resume; every pending step of resume is eventually taken
InitE == InitQueue /\ OrchIdle /\ TestingIdle /\ BatchIdle /\ ImplIdle /\ PollerIdle
           /\ FailoverIdle /\ RetryIdle /\ ResolverIdle /\ InitProgress /\ MasterBodyIdle
           /\ TransitionIdle /\ InitResume /\ WorktreeIdle /\ PlanningIdle /\ LogStreamIdle /\ ServiceRunning /\ TestBatchesIdle /\ BatchTasksIdle

NextResume ==
  \/ ResumeCalled
  \/ ResumeCalledRejects
  \/ LoadPlanResolves
  \/ LoadPlanRejects
  \/ ResumeDispatch
  \/ ApprovalContinues
  \/ ApprovalRejects

SpecResume == InitE /\ [][NextResume]_vars /\ WF_vars(NextResume)

\* ---- PlanningStage.execute inside Orchestrator.start
InitG == InitQueue /\ OrchIdle /\ TestingIdle /\ BatchIdle /\ ImplIdle /\ PollerIdle
           /\ FailoverIdle /\ RetryIdle /\ ResolverIdle /\ InitProgress /\ MasterBodyIdle
           /\ TransitionIdle /\ ResumeIdle /\ WorktreeIdle /\ InitPlanning /\ LogStreamIdle /\ ServiceRunning /\ TestBatchesIdle /\ BatchTasksIdle

NextPlanning ==
  \/ ArchitectReturns
  \/ ArchitectThrows
  \/ \E n \in TaskCounts : SculptorSettles(n)
  \/ \E n \in TaskCounts : SentinelSettles(n)
  \/ EmitPlanningComplete
  \/ CreateImplementationIssue
  \/ CreateTestIssue
  \/ CreateIssueRejects
  \/ PlanAwaitsApproval
  \/ PlanningFailed

SpecPlanning == InitG /\ [][NextPlanning]_vars

\* ---- LogStreamManager: publishes, subscriptions and disconnections
InitL == InitQueue /\ OrchIdle /\ TestingIdle /\ BatchIdle /\ ImplIdle /\ PollerIdle
           /\ FailoverIdle /\ RetryIdle /\ ResolverIdle /\ InitProgress /\ MasterBodyIdle
           /\ TransitionIdle /\ ResumeIdle /\ WorktreeIdle /\ PlanningIdle /\ InitLogStream /\ ServiceRunning /\ TestBatchesIdle /\ BatchTasksIdle

NextLogStream ==
  \/ OnLog
  \/ \E ws \in Sockets : HandleConnection(ws)
  \/ \E ws \in Sockets : SocketCloses(ws)
  \/ \E ws \in Sockets : CloseHandler(ws)

SpecLogStream == InitL /\ [][NextLogStream]_vars

\* ---- the service: the queue at work, and a termination signal.  Tickets
\* arrive through the poller and the web API while these are up; the event
\* loop runs the queue until the process exits
InitH == InitQ

NextService ==
  \/ /\ proc = "running"
     /\ \/ \E i \in Issues : Enqueue(i)
        \/ \E i \in Issues : Remove(i)
        \/ Clear
  \/ /\ proc # "exited"
     /\ \/ ProcessQueueImmediate
        \/ ProcessQueueCall
        \/ \E l \in LoopIds : FactoryResolves(l)
        \/ \E l \in LoopIds : FactoryThrows(l)
        \/ \E l \in LoopIds : StartReturns(l)
        \/ \E l \in LoopIds : StartThrows(l)
  \/ ShutdownBegins
  \/ WebServerStopResolves
  \/ WebServerStopRejects

SpecService == InitH /\ [][NextService]_vars

\* ---- progress updates with tracker calls that may reject; every timer set
\* fires and every tracker call settles
NextProgressFaults ==
  \/ NextProgress
  \/ \E t \in TimerIds : GetIssueRejects(t)
  \/ \E t \in TimerIds : UpdateIssueRejects(t)

SpecProgressFaults ==
  /\ InitU
  /\ [][NextProgressFaults]_vars
  /\ \A t \in TimerIds :
       /\ WF_vars(TimerFires(t))
       /\ WF_vars(GetIssueResolves(t) \/ GetIssueRejects(t))
       /\ WF_vars(UpdateIssueResolves(t) \/ UpdateIssueRejects(t))

\* ---- executeTestsInBatches: the batches one after another
InitY == InitB

NextTestBatches ==
  \/ NextBatch
  \/ NextBatchStarts

SpecTestBatches == InitY /\ [][NextTestBatches]_vars

InitZ == InitQueue /\ OrchIdle /\ TestingIdle /\ BatchIdle /\ ImplIdle /\ PollerIdle
           /\ InitFailover /\ RetryIdle /\ ResolverIdle /\ InitProgress /\ MasterBodyIdle /\ TransitionIdle /\ ResumeIdle /\ WorktreeIdle /\ PlanningIdle /\ LogStreamIdle /\ ServiceRunning /\ TestBatchesIdle /\ BatchTasksIdle

NextBatchTasks ==
  \/ \E k \in BatchTasks : TaskExecuteStart(k)
  \/ \E k \in BatchTasks : TaskClientResolves(k)
  \/ \E k \in BatchTasks : TaskClientTimesOut(k)
  \/ \E k \in BatchTasks : TaskRetryOrThrow(k)
  \/ \E k \in BatchTasks : TaskClientFails(k)

SpecBatchTasks == InitZ /\ [][NextBatchTasks]_vars

(***************************************************************************)
(* Claims                                                                  *)
(***************************************************************************)
\* number of orchestrator.start(id) calls issued by the queue and not yet settled
StartsInFlight == Cardinality({l \in LoopIds : loops[l].pc = "start"})

\* C1: at every moment at most one orchestrator.start(id) call issued by the
\* queue is in flight, under every interleaving of enqueue, remove, clear and
\* processQueue invocations
C1_SingleStartInFlight == StartsInFlight <= 1

\* an orchestration is running, the loop is active, and a further id that
\* was enqueued during the run is waiting
C1_Witness ==
  /\ StartsInFlight = 1
  /\ processing
  /\ Len(queue) > 0
  /\ immediates = 0
  /\ calls >= 2


\* the state vocabulary of the master ticket
StateVocabulary == {"planning", "awaiting-approval", "approved", "rejected",
                    "implementing", "testing", "completing", "completed",
                    "pr-created", "failed"}

\* C2: once a state transition has completed, the master ticket carries
\* exactly one label of the state vocabulary, also after the approval label
\* has been added and after the completion stage has run
C2_ExactlyOneStateLabel ==
  "planning" \in SeqToSet(added) => Cardinality(labels \cap StateVocabulary) = 1

\* the stage machine order of the state labels
StageOrder == <<"planning", "awaiting-approval", "approved", "implementing",
                "testing", "completing", "completed", "pr-created">>
Rank(l) == CHOOSE i \in 1..Len(StageOrder) : StageOrder[i] = l

\* C3: the state labels added to the master ticket follow the stage machine
\* order, pr-created is added only after completed, and once failed or
\* rejected has been written no other state label is added
C3_LabelsFollowStageOrder ==
  \A j \in 1..Len(added) :
    /\ \A i \in 1..(j - 1) :
         /\ (added[i] \in SeqToSet(StageOrder) /\ added[j] \in SeqToSet(StageOrder))
              => Rank(added[i]) < Rank(added[j])
         /\ added[i] \in {"failed", "rejected"} => added[j] = added[i]
    /\ added[j] = "pr-created" => \E i \in 1..(j - 1) : added[i] = "completed"

Stages == {"planning", "implementation", "testing", "completion"}

C5_ApprovalGate ==
  /\ "implementation" \in entered =>
        /\ monitorSaw = "approved"
        /\ "approved" \in SeqToSet(added) \/ decision = "approved"
  /\ monitorSaw = "rejected" =>
        /\ decision = "rejected"
        /\ entered \subseteq {"planning"}
        /\ opc = "done" => outcome = "rejected" /\ GetCurrentState(labels) = "rejected"

\* the reviewer approved and the implementation stage has been entered
C5_Witness ==
  /\ decision = "approved"
  /\ monitorSaw = "approved"
  /\ "implementation" \in entered

\* no test sub-ticket carries test-failed, failed or max-attempts-reached
TestsClean ==
  \A t \in SeqToSet(testIssues) :
    tlab[t] \cap {"test-failed", "failed", "max-attempts-reached"} = {}

HealFinished(t) == t \in SeqToSet(healOrder) /\ cur # t

\* C7: for each failed test at most 10 fix attempts are made and at most 10
\* fix sub-tickets created; a test that still fails after attempt 10 is
\* labelled max-attempts-reached and exactly one test-max-attempts-reached
\* notification is emitted for it
C7_AtMostTenAttempts ==
  \A t \in Tests :
    /\ Len(fixes[t]) <= maxAttempts
    /\ tnotes[t]["test-fix-started"] <= maxAttempts
    /\ cur = t => attemptNumber <= maxAttempts
    /\ (HealFinished(t) /\ passedAt[t] = 0) =>
          /\ Len(fixes[t]) = maxAttempts
          /\ "max-attempts-reached" \in tlab[t]
          /\ tnotes[t]["test-max-attempts-reached"] = 1

\* a test went through all ten attempts without passing
C7_Witness ==
  \E t \in Tests :
    /\ HealFinished(t)
    /\ passedAt[t] = 0
    /\ Len(fixes[t]) = maxAttempts

\* C8: when the re-run of a dependent D fails after a fix made T pass, no
\* further failed test is sent to self-heal and the orchestration fails with
\* an error message that names both T and D
C8_RegressionAbortsRun ==
  \A r \in regressions :
    /\ healOrder[Len(healOrder)] = r[1]
    /\ opc = "done" => outcome = "threw" /\ {r[1], r[2]} \subseteq errMsg.names

C10_PassOnAttemptK ==
  \A t \in Tests :
    (HealFinished(t) /\ passedAt[t] > 0) =>
       LET k == passedAt[t] IN
         /\ Len(fixes[t]) = k
         /\ \A i \in 1..Len(fixes[t]) : (fixes[t][i] = "closed") <=> (i = k)
         /\ tlab[t] \cap {"test-failed", "max-attempts-reached"} = {}
         /\ tnotes[t]["test-failed"] = 1
         /\ tnotes[t]["test-fix-started"] = k
         /\ tnotes[t]["test-fix-completed"] = k
         /\ tnotes[t]["test-passed-after-fix"] = 1

\* test agents in flight: executeTest calls that have not settled
TestAgentsInFlight == Cardinality({i \in BatchIdx : bstat[i] = "running"})

\* C11: during the testing stage the number of test agents in flight never
\* exceeds maxConcurrency, for every batch size
C11_InFlightWithinCap == TestAgentsInFlight <= GetMaxConcurrency

\* index of the batch that holds task t
BatchOf(t) == CHOOSE i \in 1..Len(ibatches) : t \in SeqToSet(ibatches[i])

\* C12: in the implementation stage a task of batch i+1 is launched only
\* after every task of batch i has settled, and no task of a later batch is
\* launched once a task of an earlier batch has failed
C12_BatchesInSequence ==
  \A t \in Batched(ibatches) : \A u \in Batched(ibatches) :
    (BatchOf(u) < BatchOf(t) /\ istat[t] # "new") => istat[u] = "completed"

\* a task of the second batch failed after the first batch completed, and
\* the third batch was never launched
C12_Witness ==
  /\ ipc = "returned"
  /\ Len(ibatches) = 3
  /\ \E t \in Tasks : BatchOf(t) = 2 /\ istat[t] = "failed"
  /\ \E t \in Tasks : BatchOf(t) = 3 /\ istat[t] = "new"

\* C13: enqueue(id) is rejected with an error whenever id is queued or is
\* the running id, and a rejected enqueue leaves the waiting list, the
\* running id and the histories unchanged
C13_DuplicateRejected ==
  [][(lastCall'.op = "enqueue" /\ calls' = calls + 1) =>
       LET i == lastCall'.id
       IN /\ (running = i \/ i \in SeqToSet(queue)) => lastCall'.threw
          /\ lastCall'.threw => UNCHANGED <<queue, running, completed, failed>>]_vars

\* an enqueue of the running id was rejected while another id was waiting
C13_Witness ==
  /\ lastCall.op = "enqueue"
  /\ lastCall.threw
  /\ running = lastCall.id
  /\ Len(queue) > 0

C15_AcceptedIsStarted ==
  \A i \in Issues :
    (life[i].fate = "waiting") ~> (life[i].fate \in {"started", "removed", "cleared"})

\* C15 amended: every id accepted by enqueue and not later removed or
\* cleared is eventually taken from the waiting list by the loop and passed
\* to start(id), unless the orchestrator factory fails for it; this holds for
\* an enqueue made while the loop is idle and for one made while it is active
C15_AcceptedIsStartedUnlessFactoryFails ==
  \A i \in Issues :
    (life[i].fate = "waiting") ~>
       (life[i].fate \in {"started", "removed", "cleared", "factory-failed"})

\* an id accepted while the loop was active has been passed to start while
\* an id accepted while the loop was idle is recorded in a history
C15_Witness ==
  /\ \E i \in Issues : life[i].active /\ life[i].fate = "started"
  /\ \E j \in Issues : ~life[j].active /\ life[j].fate = "started"
                        /\ j \in SeqToSet(completed) \cup SeqToSet(failed)

\* C16: a ticket whose queue label a poll removed carries the processing
\* label and was handed to the queue (or is in it) when that poll ends
C16_RelabelledAndEnqueued ==
  [][ended'.n # ended.n =>
       \A i \in ended'.stripped :
          /\ plabel'[i]
          /\ i \in ended'.offered \/ InQueue(i, queue', running')]_vars

PollsExecuting == Cardinality({k \in PollIds : polls[k].pc # "free"})

\* C18: at most one poll executes at a time, the flag is set exactly while one
\* does, and an invocation made meanwhile returns without doing anything
C18_SinglePollInFlight ==
  /\ [](PollsExecuting <= 1 /\ isPolling = (PollsExecuting = 1))
  /\ [][(pollCalls' # pollCalls /\ PollsExecuting >= 1) =>
          UNCHANGED <<qvars, qlabel, plabel, isPolling, polls, ended>>]_vars

\* an invocation returned at the guard, and afterwards a poll whose query
\* failed ended and cleared the flag
C18_Witness ==
  /\ pollSkips >= 1
  /\ ended.failed
  /\ ended.n = 1
  /\ ~isPolling
  /\ pollCalls = 2

\* C19: handleModelTimeout swaps the agent to its failback model and counts
\* the failover only when the count is below maxFailoversPerAgent and a
\* failback is configured; otherwise it returns null and leaves the current
\* model and the count alone; the count never exceeds maxFailoversPerAgent
C19_FailoverOnlyBelowCap ==
  /\ [][lastTimeout'.n # lastTimeout.n =>
          LET a == lastTimeout'.agent
              allowed == failoverCounts[a] < maxFailoversPerAgent /\ failbackModels[a]
          IN /\ lastTimeout'.ret # "null" =>
                   /\ allowed
                   /\ currentModels'[a] = "failback"
                   /\ failoverCounts'[a] = failoverCounts[a] + 1
             /\ ~allowed => lastTimeout'.ret = "null"
             /\ lastTimeout'.ret = "null" =>
                   /\ currentModels'[a] = currentModels[a]
                   /\ failoverCounts'[a] = failoverCounts[a]]_vars
  /\ [](\A a \in Agents : failoverCounts[a] <= maxFailoversPerAgent)

\* an agent was failed over up to the cap, and a further timeout returned null
C19_Witness ==
  /\ lastTimeout.n >= 2
  /\ lastTimeout.ret = "null"
  /\ maxFailoversPerAgent >= 1
  /\ failoverCounts[lastTimeout.agent] = maxFailoversPerAgent
  /\ currentModels[lastTimeout.agent] = "failback"

\* C20: when a model timeout yields no failover, the executor fails the
\* attempt and does not submit the prompt again
C20_NoFailoverNoResubmit ==
  [][(lastTimeout'.n # lastTimeout.n /\ lastTimeout'.ret = "null") =>
       /\ submissions' = submissions
       /\ xresult' = "failed"]_vars

NonRetryable(err) ==
  \/ \E pattern \in nonRetryablePatterns : Includes(err, pattern)
  \/ ~err.shouldRetry

\* C22: when the thunk fails with a non-retryable error, it is not invoked
\* again and that error propagates
C22_NonRetryableNotRetried ==
  [][(invocations' = invocations + 1 /\ rpc' # "returned" /\ NonRetryable(lastError')) =>
       /\ rpc' = "thrown"
       /\ retryResult' = lastError']_vars

RECURSIVE SumSeq(_)
SumSeq(q) == IF q = <<>> THEN 0 ELSE Head(q) + SumSeq(Tail(q))

RECURSIVE SumBackoff(_)
SumBackoff(k) ==
  IF k < 2 THEN 0
  ELSE initialDelayMs * Pow(backoffMultiplier, k - 2) + SumBackoff(k - 1)

\* C23: a thunk that first succeeds on its k-th invocation, k <= maxAttempts, is
\* invoked exactly k times, its value is returned, the delay before attempt j
\* is initial * multiplier^(j-2) and the delays sum to the sum of these over
\* j = 2..k
C23_SucceedsOnAttemptK ==
  rpc = "returned" =>
    /\ invocations = attempt
    /\ attempt <= retryMaxAttempts
    /\ retryResult = fnValue
    /\ Len(delays) = attempt - 1
    /\ \A j \in 2..attempt : delays[j - 1] = initialDelayMs * Pow(backoffMultiplier, j - 2)
    /\ SumSeq(delays) = SumBackoff(attempt)

\* the thunk succeeded on its third invocation, with a multiplier above 1
C23_Witness ==
  /\ rpc = "returned"
  /\ invocations = 3
  /\ backoffMultiplier > 1
  /\ retryResult = "v2"

\* the tasks reachable from the tasks of S along dependencies, in at most n steps
RECURSIVE DependsOnWithin(_, _, _)
DependsOnWithin(graph, S, n) ==
  IF n = 0 THEN S
  ELSE DependsOnWithin(graph, S \cup UNION {graph[t] \cap Tasks : t \in S \cap Tasks}, n - 1)

\* some task depends on itself, directly or through other tasks
HasCycle(graph) ==
  \E t \in Tasks : t \in DependsOnWithin(graph, graph[t], NumTasks)

\* every dependency id names a task of the list
AllDependenciesExist(graph) == \A t \in Tasks : graph[t] \subseteq Tasks

\* number of places at which task t stands in the batches
Occurrences(bs, t) ==
  Cardinality({p \in (1..Len(bs)) \X Tasks :
                   p[2] <= Len(bs[p[1]]) /\ bs[p[1]][p[2]] = t})

\* C24: for a task list whose dependencies all exist and are acyclic, resolve
\* returns batches in which every task stands exactly once, every dependency
\* of a task of batch i stands in a batch j < i, and every batch is sorted by id
C24_BatchesPartitionInOrder ==
  (dpc \notin {"idle", "call"} /\ AllDependenciesExist(dgraph) /\ ~HasCycle(dgraph)) =>
    /\ dpc = "returned"
    /\ \A t \in Tasks : Occurrences(dbatches, t) = 1
    /\ \A i \in 1..Len(dbatches) : \A t \in SeqToSet(dbatches[i]) :
         \A d \in dgraph[t] : \E j \in 1..(i - 1) : d \in SeqToSet(dbatches[j])
    /\ \A i \in 1..Len(dbatches) : \A a, b \in 1..Len(dbatches[i]) :
         a < b => dbatches[i][a] < dbatches[i][b]

\* resolve returned two batches, the first with two tasks
C24_Witness ==
  /\ dpc = "returned"
  /\ Len(dbatches) = 2
  /\ Len(dbatches[1]) = 2
  /\ \E t \in Tasks : Cardinality(dgraph[t]) = 2

\* C25: for a task list with a dependency that names no task, or with a
\* dependency cycle, resolve returns no batches and throws: the non-existent
\* task error in the first case, the circular dependency error in the second
C25_InvalidInputRefused ==
  (dpc \notin {"idle", "call"} /\ (~AllDependenciesExist(dgraph) \/ HasCycle(dgraph))) =>
    /\ dpc = "threw"
    /\ dbatches = <<>>
    /\ ~AllDependenciesExist(dgraph) => derror = "depends on non-existent task"
    /\ (AllDependenciesExist(dgraph) /\ HasCycle(dgraph)) =>
          derror = "Circular dependency detected or orphaned tasks"

\* resolve threw for a list with a cycle through two tasks, and for no other reason
C25_Witness ==
  /\ dpc = "threw"
  /\ derror = "Circular dependency detected or orphaned tasks"
  /\ \E t, u \in Tasks : t # u /\ dgraph[t] = {u} /\ dgraph[u] = {t}

\* no timer is set and no flush is in progress
ProgressQuiescent ==
  /\ liveTimers = {}
  /\ \A t \in TimerIds : flushes[t].pc \in {"none", "done"}

\* C26: the updateTaskProgress calls of one debounce window lead to one body
\* write that carries, per field, the value of the last call that set it: once
\* all timers have fired and all flushes have ended there are not more writes
\* than windows and the body holds the last value set for every field
C26_OneWritePerWindow ==
  ProgressQuiescent =>
    /\ bodyWrites <= windows
    /\ \A k \in Fields : lastSet[k] # Null => ticketBody[k] = lastSet[k]

\* the text the user wrote stands in the body, as written or quoted
RequestPresent(body) == \E i \in 1..Len(body) : PartIncludes(body[i], "REQ")

\* C27: the user's original request is in the master ticket body after every
\* body write of the orchestration
C27_OriginalRequestKept == RequestPresent(masterBody)


\* C28: transitionTo calls issued one after another on a ticket that starts
\* with at most one state label never leave it with two state labels, at any
\* moment of any call
C28_NeverTwoStateLabels == Cardinality(StateLabelsOf(ticketLabels)) <= 1
\* a second call has replaced the state label the first one wrote
C28_Witness ==
  /\ transitions >= 2
  /\ spc = "returned"
  /\ currentState # "null"
  /\ currentState # newState
  /\ StateLabelsOf(ticketLabels) = {newState}

\* C29: resume(id) on a ticket in implementing, testing or completing re-enters
\* that stage with the plan rebuilt from the sub-tickets, and the ticket then
\* reaches a terminal state (unless resume throws)
C29_ResumeContinuesToTerminal ==
  (epc = "dispatch" /\ resumedFrom \in {"implementing", "testing", "completing"})
    ~> (\/ epc = "threw"
        \/ /\ resumedFrom \in resumeEntered
           /\ GetCurrentState(rlabels) \in TerminalStates)

\* the orchestration has ended with an error raised in a stage
FailedInStage ==
  /\ opc = "done"
  /\ outcome = "threw"
  /\ raisedIn \in {"planning", "implementation", "testing", "completion"}

\* C30: when an orchestration fails in a stage, the worktree of the ticket is
\* removed if cleanupOnFailure is set and preserved otherwise
C30_CleanupOnFailureHonoured ==
  FailedInStage => worktree = (IF cleanupOnFailure THEN "removed" ELSE "present")

\* planning-complete is among the events emitted
PlanningCompleteEmitted ==
  \E i \in 1..Len(planEvents) : planEvents[i] = "planning-complete"

\* C31: every implementation and test sub-ticket has been created before
\* planning-complete is emitted, and planning-complete is emitted before the
\* master ticket goes to awaiting-approval
C31_SubTicketsBeforePlanningComplete ==
  /\ PlanningCompleteEmitted => createdAtComplete = implTaskCount + testTaskCount
  /\ ppc = "awaiting-approval" => PlanningCompleteEmitted

\* the entries a..b in publication order
Range(a, b) == [i \in 1..(b - a + 1) |-> a + i - 1]
\* the most recent min(n, size) of n published entries
MostRecent(n, size) == Range((IF n > size THEN n - size ELSE 0) + 1, n)

C33_BufferHoldsMostRecent ==
  /\ buffer = MostRecent(published, maxSize)
  /\ Len(buffer) <= maxSize
\* more entries were published than the buffer can hold
C33_Witness == maxSize >= 1 /\ published > maxSize + 1

\* C34: on SIGTERM or SIGINT the service stops the poller and the web surface
\* but does not abort the running orchestration: the process is not gone
\* while a start(id) is in flight
C34_ShutdownSparesRunningOrchestration ==
  /\ proc # "running" => ~pollerActive
  /\ exitCode = "0" => ~webActive
  /\ proc = "exited" => StartsInFlight = 0

\* C35: every field value passed to updateTaskProgress is eventually written
\* to the sub-ticket body or superseded by a later written value of the same
\* field: in the end the body holds, for every field, the last value passed
C35_EveryValueEventuallyWritten ==
  <>[](\A k \in Fields : lastSet[k] # Null => ticketBody[k] = lastSet[k])

\* C36: a status-table update never overwrites a body written after it read:
\* the body it writes is the body current at the write with only the
\* status-table section replaced
C36_StatusUpdateKeepsCurrentBody ==
  [][statusUpdates' = statusUpdates + 1 =>
       masterBody' = UpdateStatusTable(masterBody)]_vars

\* C37: no test of batch i+1 is launched before every test of batch i has
\* settled, whatever the batch size and maxConcurrency
C37_BatchSettledBeforeNext == leftRunning = 0

\* C38: a test whose re-run passed is never afterwards given the labels of
\* handleMaxAttemptsReached by the self-heal loop
C38_PassedNeverMaxAttempts ==
  \A t \in Tests : passedAt[t] > 0 => "max-attempts-reached" \notin tlab[t]
\* C39: once start(id) has returned or thrown, after completion, rejection or
\* a failure in any stage, the periodic status reporter is stopped and writes
\* the master ticket no more
C39_ReporterStoppedWhenStartSettles ==
  opc = "done" => (~intervalId /\ lateWrites = 0)

\* the part of C39 the code keeps: after completion or rejection the interval
\* is cleared and no write follows
ReporterStoppedOnSuccessPaths ==
  (opc = "done" /\ outcome \in {"approved", "rejected"}) =>
      (~intervalId /\ lateWrites = 0)

\* task k is running a retry of the failover loop
Retrying(k) == taskPc[k] = "submitted" /\ taskFailoverAttempts[k] > 0

\* C40: the retry that follows a failover of a role runs on the failback
\* model, also when a concurrent task of the role completed in between, and a
\* task that timed out on the default model of a role with a failback model
\* and a failover budget never retries on that default model, whatever the
\* timeouts of the concurrent tasks did to the budget
C40_RetryUsesFailbackUnderConcurrency ==
  \A k \in BatchTasks :
    Retrying(k) =>
      /\ newModel[k] = "failback" => currentModel[k] = "failback"
      /\ (/\ timedOutModel[k] = "default"
          /\ enabled
          /\ failbackModels[Craftsman]
          /\ maxFailoversPerAgent > 0) => currentModel[k] # "default"

\* the budget of the role is never spent while the role is on its default
\* model: a failover count above zero goes with the failback model
BudgetSpentOnlyOnFailback ==
  failoverCounts[Craftsman] > 0 => currentModels[Craftsman] = "failback"
====
